---------------------------- MODULE Spec2Model ----------------------------
(***************************************************************************)
(* A model of Elemental's distributed Hermitian rank-k update (HerkUN),    *)
(* of the process grid set up by its test driver, and of the element-wise  *)
(* distribution rules the kernel relies on.                                *)
(*                                                                         *)
(* Matrix entries are Gaussian integers <<re, im>>, so that all arithmetic *)
(* is exact and conjugation is observable.  A local buffer is a function   *)
(* from <<iLoc, jLoc>> (column-major local indices) to an entry.           *)
(***************************************************************************)
EXTENDS Integers, FiniteSets, Sequences, TLC

(***************************************************************************)
(* Bounds of the model.                                                    *)
(***************************************************************************)
MaxM == 4
MaxK == 2
MaxNb == 2
MaxProcs == 6
MaxDepth == 5

(***************************************************************************)
(* Scalars: exact complex arithmetic.                                      *)
(***************************************************************************)
Cx(re, im) == <<re, im>>
CZero == Cx(0, 0)
COne == Cx(1, 0)
CAdd(x, y) == Cx(x[1] + y[1], x[2] + y[2])
CMul(x, y) == Cx(x[1] * y[1] - x[2] * y[2], x[1] * y[2] + x[2] * y[1])
Conj(x) == Cx(x[1], 0 - x[2])

Min(a, b) == IF a < b THEN a ELSE b

(***************************************************************************)
(* Process grid: a logical r x c arrangement with column-major ranking.    *)
(* A grid is a record [r, c, id]; id distinguishes grid instances.         *)
(***************************************************************************)
Grid(r, c, id) == [r |-> r, c |-> c, id |-> id]
Procs(g) == 0 .. (g.r * g.c - 1)
MCRank(g, p) == p % g.r
MRRank(g, p) == p \div g.r
VCRank(g, p) == MCRank(g, p) + MRRank(g, p) * g.r
VRRank(g, p) == MRRank(g, p) + MCRank(g, p) * g.c

(***************************************************************************)
(* Distribution descriptors.  colDist says how the rows of each column are *)
(* spread (it pairs with colAlign), rowDist how the columns of each row    *)
(* are spread (it pairs with rowAlign).                                    *)
(***************************************************************************)
Dists == {"MC", "MR", "VC", "VR", "STAR", "CIRC"}

LegalPairs ==
    { <<"CIRC", "CIRC">>, <<"MC", "MR">>, <<"MC", "STAR">>, <<"MR", "MC">>,
      <<"MR", "STAR">>, <<"STAR", "MC">>, <<"STAR", "MR">>, <<"STAR", "STAR">>,
      <<"STAR", "VC">>, <<"STAR", "VR">>, <<"VC", "STAR">>, <<"VR", "STAR">> }

\* A slip: the strides of the two grid dimensions exchanged.
Stride_Swapped(g, d) ==
    CASE d = "MC" -> g.c
      [] d = "MR" -> g.r
      [] d \in {"VC", "VR"} -> g.r * g.c
      [] OTHER -> 1

Stride(g, d) ==
    CASE d = "MC" -> g.r
      [] d = "MR" -> g.c
      [] d \in {"VC", "VR"} -> g.r * g.c
      [] OTHER -> 1

DistRank(g, d, p) ==
    CASE d = "MC" -> MCRank(g, p)
      [] d = "MR" -> MRRank(g, p)
      [] d = "VC" -> VCRank(g, p)
      [] d = "VR" -> VRRank(g, p)
      [] OTHER -> 0

\* The residue class of global indices a grid coordinate owns: coordinate
\* `rank` owns index i iff i mod modulus = (rank + align) mod modulus.
Shift(rank, align, modulus) == (rank + align) % modulus

\* Number of indices in 0..n-1 congruent to shift modulo modulus.
LocalLength(n, shift, modulus) ==
    IF n > shift THEN ((n - shift - 1) \div modulus) + 1 ELSE 0

LocalToGlobal(iLoc, shift, modulus) == shift + iLoc * modulus

\* A distributed matrix as seen by one process: descriptor, global shape and
\* the offset of its local block inside the buffer it lives in (0 for an
\* owner, the parent's offset plus the skipped local rows for a view).
DistMatrix(colDist, rowDist, colAlign, rowAlign, height, width) ==
    [colDist |-> colDist, rowDist |-> rowDist,
     colAlign |-> colAlign, rowAlign |-> rowAlign, root |-> 0,
     height |-> height, width |-> width, iOff |-> 0, jOff |-> 0]

ColStride(g, V) == Stride(g, V.colDist)
RowStride(g, V) == Stride(g, V.rowDist)
ColShift(g, p, V) == Shift(DistRank(g, V.colDist, p), V.colAlign, ColStride(g, V))
RowShift(g, p, V) == Shift(DistRank(g, V.rowDist, p), V.rowAlign, RowStride(g, V))

\* A single-process ("CIRC") matrix lives on its root only.
Participates(p, V) == ("CIRC" \in {V.colDist, V.rowDist}) => (p = V.root)

LocalHeight(g, p, V) ==
    IF Participates(p, V)
    THEN LocalLength(V.height, ColShift(g, p, V), ColStride(g, V)) ELSE 0
LocalWidth(g, p, V) ==
    IF Participates(p, V)
    THEN LocalLength(V.width, RowShift(g, p, V), RowStride(g, V)) ELSE 0

\* Process p stores global entry (i, j) of V.
Owns(g, p, V, i, j) ==
    /\ Participates(p, V)
    /\ i % ColStride(g, V) = ColShift(g, p, V)
    /\ j % RowStride(g, V) = RowShift(g, p, V)

OwnedRows(g, p, V) ==
    IF Participates(p, V)
    THEN {i \in 0 .. (V.height - 1) : i % ColStride(g, V) = ColShift(g, p, V)}
    ELSE {}
OwnedCols(g, p, V) ==
    IF Participates(p, V)
    THEN {j \in 0 .. (V.width - 1) : j % RowStride(g, V) = RowShift(g, p, V)}
    ELSE {}

\* A slip: a view keeps the alignment of its parent.
ShiftAlign_Unshifted(align, off, modulus) == align

\* Alignment of the sub-block that starts at global index `off`: the owner of
\* its index 0 is the owner of the parent's index `off`.
ShiftAlign(align, off, modulus) == (align + modulus - (off % modulus)) % modulus

\* The h x w sub-block of V whose top-left corner is V's entry (i, j).
View(g, p, V, i, j, h, w) ==
    [V EXCEPT !.colAlign = ShiftAlign(V.colAlign, i, ColStride(g, V)),
              !.rowAlign = ShiftAlign(V.rowAlign, j, RowStride(g, V)),
              !.height = h, !.width = w,
              !.iOff = V.iOff + LocalLength(i, ColShift(g, p, V), ColStride(g, V)),
              !.jOff = V.jOff + LocalLength(j, RowShift(g, p, V), RowStride(g, V))]

\* Local index set of V on p, and the buffer positions it occupies.
LocalIdx(g, p, V) ==
    (0 .. (LocalHeight(g, p, V) - 1)) \X (0 .. (LocalWidth(g, p, V) - 1))
At(V, ij) == <<V.iOff + ij[1], V.jOff + ij[2]>>
GlobalRow(g, p, V, iLoc) == LocalToGlobal(iLoc, ColShift(g, p, V), ColStride(g, V))
GlobalCol(g, p, V, jLoc) == LocalToGlobal(jLoc, RowShift(g, p, V), RowStride(g, V))

\* Partitioning helpers (views only, no data movement).
LockedPartitionDown(g, p, V, heightAT) ==
    LET hT == Min(heightAT, V.height)
    IN  [T |-> View(g, p, V, 0, 0, hT, V.width),
         B |-> View(g, p, V, hT, 0, V.height - hT, V.width)]

PartitionDownDiagonal(g, p, V, diagATL) ==
    LET d == Min(diagATL, Min(V.height, V.width))
    IN  [TL |-> View(g, p, V, 0, 0, d, d),
         TR |-> View(g, p, V, 0, d, d, V.width - d),
         BL |-> View(g, p, V, d, 0, V.height - d, d),
         BR |-> View(g, p, V, d, d, V.height - d, V.width - d)]


(***************************************************************************)
(* Local (per-process) dense operations.  A matrix operand is a record     *)
(* [V |-> view, buf |-> local buffer]; each operation returns the new      *)
(* buffer of the operand it writes.                                        *)
(***************************************************************************)
InBlock(g, p, V, x) ==
    /\ x[1] - V.iOff \in 0 .. (LocalHeight(g, p, V) - 1)
    /\ x[2] - V.jOff \in 0 .. (LocalWidth(g, p, V) - 1)

Entry(X, ij) == X.buf[At(X.V, ij)]

\* Sum over t < n of X(a,t) * conj(Y(b,t)) on the local blocks.
RECURSIVE DotConj(_, _, _, _, _)
DotConj(X, Y, a, b, n) ==
    IF n = 0 THEN CZero
    ELSE CAdd(DotConj(X, Y, a, b, n - 1),
              CMul(Entry(X, <<a, n - 1>>), Conj(Entry(Y, <<b, n - 1>>))))

\* BLAS::Scal( beta, C )
Scal(g, p, beta, C) ==
    [x \in DOMAIN C.buf |->
        IF InBlock(g, p, C.V, x) THEN CMul(beta, C.buf[x]) ELSE C.buf[x]]

\* BLAS::Gemm( Normal, ConjugateTranspose, alpha, X, Y, beta, Z ) on the
\* local blocks: Z := alpha X Y^H + beta Z.
Gemm(g, p, alpha, X, Y, beta, Z) ==
    LET n == LocalWidth(g, p, X.V)
    IN  [x \in DOMAIN Z.buf |->
            IF InBlock(g, p, Z.V, x)
            THEN CAdd(CMul(beta, Z.buf[x]),
                      CMul(alpha, DotConj(X, Y, x[1] - Z.V.iOff,
                                          x[2] - Z.V.jOff, n)))
            ELSE Z.buf[x]]

\* A freshly resized matrix aligned with V: same descriptor and shape as V,
\* its own zero-offset buffer.
AlignedLike(g, p, V) ==
    LET W == [V EXCEPT !.iOff = 0, !.jOff = 0]
    IN  [V |-> W, buf |-> [x \in LocalIdx(g, p, W) |-> CZero]]

\* D.MakeTrapezoidal( Left, Upper ): zero the entries strictly below the
\* diagonal, decided on global indices.
MakeTrapezoidal(g, p, D) ==
    [x \in DOMAIN D.buf |->
        IF GlobalRow(g, p, D.V, x[1]) > GlobalCol(g, p, D.V, x[2])
        THEN CZero ELSE D.buf[x]]

\* BLAS::Axpy( alpha, D, C ): C := alpha D + C on matching local indices.
Axpy(g, p, alpha, D, C) ==
    [x \in DOMAIN C.buf |->
        IF InBlock(g, p, C.V, x)
        THEN CAdd(CMul(alpha, Entry(D, <<x[1] - C.V.iOff, x[2] - C.V.jOff>>)),
                  C.buf[x])
        ELSE C.buf[x]]

Mat(V, buf) == [V |-> V, buf |-> buf]

(***************************************************************************)
(* The debug-build operand checks shared by HerkUNUpdate and its kernel.   *)
(***************************************************************************)
UpdateCheck(A_MC_Star, A_MR_Star, C) ==
    IF \/ A_MC_Star.V.height # C.V.height
       \/ A_MR_Star.V.height # C.V.width
       \/ A_MC_Star.V.height # A_MR_Star.V.height
       \/ A_MC_Star.V.width # A_MR_Star.V.width
    THEN "nonconformal"
    ELSE IF \/ A_MC_Star.V.colAlign # C.V.colAlign
            \/ A_MR_Star.V.colAlign # C.V.rowAlign
         THEN "misaligned"
         ELSE "ok"

\* Variants of the kernel with one slip each.
HerkUNUpdateKernel_NoCTR(g, p, release, alpha, A_MC_Star, A_MR_Star, beta, C) ==
    LET half == C.V.height \div 2
        c1   == Scal(g, p, beta, C)
        AMC  == LockedPartitionDown(g, p, A_MC_Star.V, half)
        AMR  == LockedPartitionDown(g, p, A_MR_Star.V, half)
        CP   == PartitionDownDiagonal(g, p, C.V, half)
        DTL0 == AlignedLike(g, p, CP.TL)
        DTL1 == Mat(DTL0.V, Gemm(g, p, alpha, Mat(AMC.T, A_MC_Star.buf),
                                 Mat(AMR.T, A_MR_Star.buf), CZero, DTL0))
        c3   == Axpy(g, p, COne, Mat(DTL0.V, MakeTrapezoidal(g, p, DTL1)),
                     Mat(CP.TL, c1))
        DBR0 == AlignedLike(g, p, CP.BR)
        DBR1 == Mat(DBR0.V, Gemm(g, p, alpha, Mat(AMC.B, A_MC_Star.buf),
                                 Mat(AMR.B, A_MR_Star.buf), CZero, DBR0))
        c4   == Axpy(g, p, COne, Mat(DBR0.V, MakeTrapezoidal(g, p, DBR1)),
                     Mat(CP.BR, c3))
    IN  [status |-> "ok", buf |-> c4]

HerkUNUpdateKernel_Overwrite(g, p, release, alpha, A_MC_Star, A_MR_Star, beta, C) ==
    LET half == C.V.height \div 2
        c1   == Scal(g, p, beta, C)
        AMC  == LockedPartitionDown(g, p, A_MC_Star.V, half)
        AMR  == LockedPartitionDown(g, p, A_MR_Star.V, half)
        CP   == PartitionDownDiagonal(g, p, C.V, half)
        c2   == Gemm(g, p, alpha, Mat(AMC.T, A_MC_Star.buf),
                     Mat(AMR.B, A_MR_Star.buf), COne, Mat(CP.TR, c1))
        c3   == Gemm(g, p, alpha, Mat(AMC.T, A_MC_Star.buf),
                     Mat(AMR.T, A_MR_Star.buf), CZero, Mat(CP.TL, c2))
        c4   == Gemm(g, p, alpha, Mat(AMC.B, A_MC_Star.buf),
                     Mat(AMR.B, A_MR_Star.buf), CZero, Mat(CP.BR, c3))
    IN  [status |-> "ok", buf |-> c4]

(***************************************************************************)
(* HerkUNUpdateKernel: the masked full multiply on one diagonal block.     *)
(* Returns [status, buf].                                                  *)
(***************************************************************************)
HerkUNUpdateKernel(g, p, release, alpha, A_MC_Star, A_MR_Star, beta, C) ==
    LET chk  == IF release THEN "ok" ELSE UpdateCheck(A_MC_Star, A_MR_Star, C)
        half == C.V.height \div 2
        c1   == Scal(g, p, beta, C)
        AMC  == LockedPartitionDown(g, p, A_MC_Star.V, half)
        AMR  == LockedPartitionDown(g, p, A_MR_Star.V, half)
        CP   == PartitionDownDiagonal(g, p, C.V, half)
        AT_MC_Star == Mat(AMC.T, A_MC_Star.buf)
        AB_MC_Star == Mat(AMC.B, A_MC_Star.buf)
        AT_MR_Star == Mat(AMR.T, A_MR_Star.buf)
        AB_MR_Star == Mat(AMR.B, A_MR_Star.buf)
        c2   == Gemm(g, p, alpha, AT_MC_Star, AB_MR_Star, COne, Mat(CP.TR, c1))
        DTL0 == AlignedLike(g, p, CP.TL)
        DTL1 == Mat(DTL0.V, Gemm(g, p, alpha, AT_MC_Star, AT_MR_Star, CZero, DTL0))
        DTL  == Mat(DTL0.V, MakeTrapezoidal(g, p, DTL1))
        c3   == Axpy(g, p, COne, DTL, Mat(CP.TL, c2))
        DBR0 == AlignedLike(g, p, CP.BR)
        DBR1 == Mat(DBR0.V, Gemm(g, p, alpha, AB_MC_Star, AB_MR_Star, CZero, DBR0))
        DBR  == Mat(DBR0.V, MakeTrapezoidal(g, p, DBR1))
        c4   == Axpy(g, p, COne, DBR, Mat(CP.BR, c3))
    IN  IF chk # "ok" THEN [status |-> chk, buf |-> C.buf]
        ELSE [status |-> "ok", buf |-> c4]

(***************************************************************************)
(* HerkUNUpdate: recursive update of a diagonal block of C.  The threshold *)
(* is a parameter so that the recursion can be studied apart from the      *)
(* value the code gives it; depth counts the nested calls, and a call      *)
(* nested deeper than MaxDepth ends the run with status "overflow".        *)
(***************************************************************************)
\* A slip: the off-diagonal block is accumulated without rescaling.
RECURSIVE HerkUNUpdateAt_UnitBeta(_, _, _, _, _, _, _, _, _, _)
HerkUNUpdateAt_UnitBeta(thr, depth, g, p, release, alpha, A_MC_Star, A_MR_Star, beta, C) ==
    IF depth > MaxDepth THEN [status |-> "overflow", buf |-> C.buf]
    ELSE IF C.V.height < thr
    THEN HerkUNUpdateKernel(g, p, release, alpha, A_MC_Star, A_MR_Star, beta, C)
    ELSE
        LET half == C.V.height \div 2
            AMC  == LockedPartitionDown(g, p, A_MC_Star.V, half)
            AMR  == LockedPartitionDown(g, p, A_MR_Star.V, half)
            CP   == PartitionDownDiagonal(g, p, C.V, half)
            c1 == Gemm(g, p, alpha, Mat(AMC.T, A_MC_Star.buf),
                       Mat(AMR.B, A_MR_Star.buf), COne, Mat(CP.TR, C.buf))
            r1 == HerkUNUpdateAt_UnitBeta(thr, depth + 1, g, p, release, alpha,
                                          Mat(AMC.T, A_MC_Star.buf),
                                          Mat(AMR.T, A_MR_Star.buf), beta,
                                          Mat(CP.TL, c1))
            r2 == HerkUNUpdateAt_UnitBeta(thr, depth + 1, g, p, release, alpha,
                                          Mat(AMC.B, A_MC_Star.buf),
                                          Mat(AMR.B, A_MR_Star.buf), beta,
                                          Mat(CP.BR, r1.buf))
        IN  IF r1.status # "ok" THEN r1 ELSE r2

RECURSIVE HerkUNUpdateAt(_, _, _, _, _, _, _, _, _, _)
HerkUNUpdateAt(thr, depth, g, p, release, alpha, A_MC_Star, A_MR_Star, beta, C) ==
    LET chk == IF release THEN "ok" ELSE UpdateCheck(A_MC_Star, A_MR_Star, C)
    IN
    IF depth > MaxDepth THEN [status |-> "overflow", buf |-> C.buf]
    ELSE IF chk # "ok" THEN [status |-> chk, buf |-> C.buf]
    ELSE IF C.V.height < thr
    THEN HerkUNUpdateKernel(g, p, release, alpha, A_MC_Star, A_MR_Star, beta, C)
    ELSE
        LET half == C.V.height \div 2
            AMC  == LockedPartitionDown(g, p, A_MC_Star.V, half)
            AMR  == LockedPartitionDown(g, p, A_MR_Star.V, half)
            CP   == PartitionDownDiagonal(g, p, C.V, half)
            AT_MC_Star == Mat(AMC.T, A_MC_Star.buf)
            AB_MC_Star == Mat(AMC.B, A_MC_Star.buf)
            AT_MR_Star == Mat(AMR.T, A_MR_Star.buf)
            AB_MR_Star == Mat(AMR.B, A_MR_Star.buf)
            c1 == Gemm(g, p, alpha, AT_MC_Star, AB_MR_Star, beta, Mat(CP.TR, C.buf))
            r1 == HerkUNUpdateAt(thr, depth + 1, g, p, release, alpha,
                                 AT_MC_Star, AT_MR_Star, beta, Mat(CP.TL, c1))
            r2 == HerkUNUpdateAt(thr, depth + 1, g, p, release, alpha,
                                 AB_MC_Star, AB_MR_Star, beta, Mat(CP.BR, r1.buf))
        IN  IF r1.status # "ok" THEN r1 ELSE r2

\* A slip: the recursion is never cut off.
Threshold_Zero(g, nb) == 0

\* if( C.Height() < 2*grid.Width()*Blocksize() )
Threshold(g, nb) == 2 * g.c * nb

HerkUNUpdate(g, p, nb, release, alpha, A_MC_Star, A_MR_Star, beta, C) ==
    HerkUNUpdateAt(Threshold(g, nb), 0, g, p, release, alpha,
                   A_MC_Star, A_MR_Star, beta, C)


(***************************************************************************)
(* Redistribution B := A between two descriptors over one grid.  S[q] is   *)
(* the source as process q holds it; D is the destination descriptor.      *)
(* Each destination entry is fetched from a process that stores it.        *)
(***************************************************************************)
SourceOwner(g, S, i, j) == CHOOSE q \in Procs(g) : Owns(g, q, S[q].V, i, j)

Fetch(g, S, i, j) ==
    LET q == SourceOwner(g, S, i, j)
    IN  Entry(S[q], <<i \div ColStride(g, S[q].V), j \div RowStride(g, S[q].V)>>)

Redistribute(g, S, D, p) ==
    Mat(D, [x \in LocalIdx(g, p, D) |->
               Fetch(g, S, GlobalRow(g, p, D, x[1]), GlobalCol(g, p, D, x[2]))])

(***************************************************************************)
(* Inputs of one HerkUN call: a record x with the grid shape, the build    *)
(* flavour, the block size, the operands' shapes and alignments, the       *)
(* scalars and the fills of A and C.                                       *)
(***************************************************************************)
GridShapes == {<<1, 1>>, <<1, 2>>, <<2, 1>>, <<2, 2>>}

AFill(seed, i, t) == IF seed = 0 THEN Cx(i + t, 0) ELSE Cx(1 + i - t, 2 * t - i)
CFill(seed, i, j) ==
    IF seed = 1 /\ i > j THEN Cx(9, 0 - 9) ELSE Cx(1 + i + 3 * j, i - j)

\* alpha, beta and the fill of A: the rescale (0, 1) and the scalars the
\* test driver passes (3, 4); the scenario of the specification
\* (1, 0, A(i,j) = i+j) is ScenarioInput.
Cases ==
    { [alpha |-> CZero, beta |-> COne, aSeed |-> 1],
      [alpha |-> Cx(3, 0), beta |-> Cx(4, 0), aSeed |-> 1] }

Input(sh, ca, ra, same, rel, nb, m, k, cH, cW, cs) ==
    [shape |-> sh, cColAlign |-> ca, cRowAlign |-> ra, sameGrid |-> same,
     release |-> rel, nb |-> nb, m |-> m, k |-> k, cH |-> cH, cW |-> cW,
     alpha |-> cs.alpha, beta |-> cs.beta, aSeed |-> cs.aSeed, cSeed |-> 0]

\* Conformal operands on one grid, debug build.
ValidInputs ==
    { Input(sh, ca, ra, TRUE, FALSE, nb, m, k, m, m, cs) :
      sh \in GridShapes, ca \in 0 .. 1, ra \in 0 .. 1, nb \in 1 .. MaxNb,
      m \in 0 .. MaxM, k \in 0 .. MaxK, cs \in Cases }

\* Conformal operands, release build (the checks are compiled out).
ReleaseInputs ==
    { Input(sh, ca, ra, TRUE, TRUE, 1, m, k, m, m, cs) :
      sh \in GridShapes, ca \in 0 .. 1, ra \in 0 .. 1,
      m \in 1 .. 2, k \in 0 .. 2, cs \in Cases }

\* Operands on different grid instances, or of nonconformal shapes, in
\* either build.
InvalidInputs ==
    { Input(sh, 0, 0, d[1], rel, 1, m, k, m + d[2], m + d[3], cs) :
      sh \in GridShapes, rel \in BOOLEAN, m \in 1 .. 2, k \in 0 .. 1,
      d \in {<<FALSE, 0, 0>>, <<TRUE, 1, 0>>, <<TRUE, 0, 1>>, <<TRUE, 1, 1>>},
      cs \in {c \in Cases : c.aSeed = 1 /\ c.alpha # CZero} }

\* The scenario of the specification: 2 x 2 grid, m = 6, k = 4, nb = 2,
\* alpha = 1, beta = 0, A(i,j) = i + j.
ScenarioInput ==
    Input(<<2, 2>>, 0, 0, TRUE, FALSE, 2, 6, 4, 6, 6,
          [alpha |-> COne, beta |-> CZero, aSeed |-> 0])

Inputs ==
    { x \in ValidInputs \cup ReleaseInputs \cup InvalidInputs \cup {ScenarioInput} :
        x.cColAlign < x.shape[1] /\ x.cRowAlign < x.shape[2] }

GridOf(x) == Grid(x.shape[1], x.shape[2], 1)
GridOfA(x) == IF x.sameGrid THEN GridOf(x) ELSE Grid(x.shape[1], x.shape[2], 2)
ADesc(x) == DistMatrix("MC", "MR", 0, 0, x.m, x.k)
CDesc(x) == DistMatrix("MC", "MR", x.cColAlign, x.cRowAlign, x.cH, x.cW)

\* The local parts of the global fills of A and C on process p.
LocalA(x, p) ==
    [y \in LocalIdx(GridOf(x), p, ADesc(x)) |->
        AFill(x.aSeed, GlobalRow(GridOf(x), p, ADesc(x), y[1]),
              GlobalCol(GridOf(x), p, ADesc(x), y[2]))]
LocalC(x, p) ==
    [y \in LocalIdx(GridOf(x), p, CDesc(x)) |->
        CFill(x.cSeed, GlobalRow(GridOf(x), p, CDesc(x), y[1]),
              GlobalCol(GridOf(x), p, CDesc(x), y[2]))]

(***************************************************************************)
(* The pieces of HerkUN, as functions of the inputs x and the buffers.     *)
(***************************************************************************)
\* A slip: the width of C is not compared.
EntryCheck_NoWidth(x) ==
    IF GridOfA(x) # GridOf(x) THEN "grid"
    ELSE IF x.m # x.cH THEN "nonconformal"
    ELSE "ok"

\* if( A.GetGrid() != C.GetGrid() ) ... if( A.Height() != C.Height() || ...
EntryCheck(x) ==
    IF GridOfA(x) # GridOf(x) THEN "grid"
    ELSE IF x.m # x.cH \/ x.m # x.cW THEN "nonconformal"
    ELSE "ok"

\* LockedRepartitionRight: the panel A1 exposed when AL has width w.
PanelWidth(x, w) == Min(x.nb, x.k - w)
\* A slip: the panel is always taken at the left edge of A.
A1_LeftEdge(x, Ab, p, w) ==
    Mat(View(GridOf(x), p, ADesc(x), 0, 0, x.m, PanelWidth(x, w)), Ab[p])
A1(x, Ab, p, w) ==
    Mat(View(GridOf(x), p, ADesc(x), 0, w, x.m, PanelWidth(x, w)), Ab[p])

\* A slip: A1_MC_Star is left at its default alignment.
MCDesc_Unaligned(x, w) == DistMatrix("MC", "STAR", 0, 0, x.m, PanelWidth(x, w))

\* A1_MC_Star.AlignWith( C ); A1_MR_Star.AlignWith( C )
MCDesc(x, w) == DistMatrix("MC", "STAR", CDesc(x).colAlign, 0, x.m, PanelWidth(x, w))
MRDesc(x, w) == DistMatrix("MR", "STAR", CDesc(x).rowAlign, 0, x.m, PanelWidth(x, w))

\* A1_MC_Star = A1
ToMCStar(x, Ab, w, q) ==
    Redistribute(GridOf(x), [s \in Procs(GridOf(x)) |-> A1(x, Ab, s, w)],
                 MCDesc(x, w), q)

\* A1_MR_Star = A1_MC_Star
ToMRStar(x, AMC, w, q) == Redistribute(GridOf(x), AMC, MRDesc(x, w), q)

\* A slip: the scale reads the entry at the transposed local position.
ScaleC_Mirror(x, p, cbuf) ==
    [y \in DOMAIN cbuf |->
        CMul(x.beta, IF <<y[2], y[1]>> \in DOMAIN cbuf
                     THEN cbuf[<<y[2], y[1]>>] ELSE cbuf[y])]

\* A slip: the scale of C is left to the panel updates.
ScaleC_Skipped(x, p, cbuf) == cbuf

\* BLAS::Scal( beta, C )
ScaleC(x, p, cbuf) == Scal(GridOf(x), p, x.beta, Mat(CDesc(x), cbuf))

\* A slip: every panel rescales C by beta again.
PanelUpdate_Beta(x, p, AMC, AMR, cbuf) ==
    HerkUNUpdate(GridOf(x), p, x.nb, x.release, x.alpha, AMC, AMR, x.beta,
                 Mat(CDesc(x), cbuf))

\* HerkUNUpdate( alpha, A1_MC_Star, A1_MR_Star, (T)1, C )
PanelUpdate(x, p, AMC, AMR, cbuf) ==
    HerkUNUpdate(GridOf(x), p, x.nb, x.release, x.alpha, AMC, AMR, COne,
                 Mat(CDesc(x), cbuf))

\* The loop of HerkUN on process p from AL of width w on, as one function.
RECURSIVE HerkUNPanels(_, _, _, _, _)
HerkUNPanels(x, Ab, p, w, cbuf) ==
    IF ~(x.k - w > 0) THEN cbuf
    ELSE LET AMC == [q \in Procs(GridOf(x)) |-> ToMCStar(x, Ab, w, q)]
             AMR == ToMRStar(x, AMC, w, p)
         IN  HerkUNPanels(x, Ab, p, w + PanelWidth(x, w),
                          PanelUpdate(x, p, AMC[p], AMR, cbuf).buf)

\* What HerkUN leaves in p's buffer of C, given everyone's buffers of A and
\* p's buffer of C.
HerkUN(x, Ab, p, cbuf) == HerkUNPanels(x, Ab, p, 0, ScaleC(x, p, cbuf))

(***************************************************************************)
(* State of one SPMD execution of HerkUN.                                  *)
(***************************************************************************)
VARIABLES
    in,          \* the call's inputs (never changes)
    pc,          \* pc[p]: where process p is
    A,           \* A[p]: p's local buffer of A [MC,MR]
    C,           \* C[p]: p's local buffer of C [MC,MR]
    ALw,         \* ALw[p]: width of AL, the columns of A already consumed
    A1_MC_Star,  \* A1_MC_Star[p]: p's copy of the panel in [MC,*]
    A1_MR_Star,  \* A1_MR_Star[p]: p's copy of the panel in [MR,*]
    main,        \* main[p]: the locals of the test driver's main on p
    dm,          \* a distributed matrix being declared, sized and viewed
    upd,         \* one call of HerkUNUpdate on one process, run step by step
    ipf,         \* one call of lp::affine::IPF
    dipf,        \* one call of the distributed lp::affine::IPF, per process
    trr,         \* one call of Trr2kTNTT
    pcf,         \* one call of adjoint::PartialColFilter
    capi         \* one call through the C interface of the matrix gallery

libVars == <<dipf, trr, pcf, capi>>
vars == <<in, pc, A, C, ALw, A1_MC_Star, A1_MR_Star, main, dm, upd, ipf,
         dipf, trr, pcf, capi>>

\* The parts of the state an execution of HerkUN does not touch, and their
\* value while they are not in use.
driverVars == <<main, dm, upd, ipf, libVars>>
kernelVars == <<pc, A, C, ALw, A1_MC_Star, A1_MR_Star>>
Unused == <<>>
LibIdle == dipf = Unused /\ trr = Unused /\ pcf = Unused /\ capi = Unused

grid == GridOf(in)

NoMat == Mat(DistMatrix("STAR", "STAR", 0, 0, 0, 0), <<>>)

InitFor(x) ==
    /\ in = x
    /\ pc = [p \in Procs(GridOf(x)) |-> "entry"]
    /\ A = [p \in Procs(GridOf(x)) |-> LocalA(x, p)]
    /\ C = [p \in Procs(GridOf(x)) |-> LocalC(x, p)]
    /\ ALw = [p \in Procs(GridOf(x)) |-> 0]
    /\ A1_MC_Star = [p \in Procs(GridOf(x)) |-> NoMat]
    /\ A1_MR_Star = [p \in Procs(GridOf(x)) |-> NoMat]

Init ==
    /\ \E x \in Inputs : InitFor(x)
    /\ main = Unused /\ dm = Unused /\ upd = Unused /\ ipf = Unused /\ LibIdle

\* A slip: the loop stops when no full panel is left after the current one.
LoopPc_Early(w) == IF in.k - w > in.nb THEN "redistMC" ELSE "done"

\* while( AR.Width() > 0 )
LoopPc(w) == IF in.k - w > 0 THEN "redistMC" ELSE "done"

\* A slip: the first loop test looks at the columns of A the process itself
\* stores.
Enter_LocalTest(p) ==
    /\ pc[p] = "entry"
    /\ IF ~in.release /\ EntryCheck(in) # "ok"
       THEN /\ pc' = [pc EXCEPT ![p] = "error"]
            /\ UNCHANGED C
       ELSE /\ C' = [C EXCEPT ![p] = ScaleC(in, p, C[p])]
            /\ pc' = [pc EXCEPT ![p] =
                        IF LocalWidth(grid, p, ADesc(in)) > 0
                        THEN "redistMC" ELSE "done"]
    /\ UNCHANGED <<in, A, ALw, A1_MC_Star, A1_MR_Star>>

\* Entry checks (debug build), BLAS::Scal( beta, C ), LockedPartitionRight
\* and the first loop test.
Enter(p) ==
    /\ pc[p] = "entry"
    /\ IF ~in.release /\ EntryCheck(in) # "ok"
       THEN /\ pc' = [pc EXCEPT ![p] = "error"]
            /\ UNCHANGED C
       ELSE /\ C' = [C EXCEPT ![p] = ScaleC(in, p, C[p])]
            /\ pc' = [pc EXCEPT ![p] = LoopPc(0)]
    /\ UNCHANGED <<in, A, ALw, A1_MC_Star, A1_MR_Star>>

\* A1_MC_Star = A1 is an all-gather within each process row when A1 is
\* aligned with C; when it is not, a shift along the process columns comes
\* first and the whole grid takes part.
MCGroup(p) ==
    IF ADesc(in).colAlign = CDesc(in).colAlign
    THEN {q \in Procs(grid) : MCRank(grid, q) = MCRank(grid, p)}
    ELSE Procs(grid)

RedistMC(p) ==
    /\ p = CHOOSE q \in MCGroup(p) : TRUE
    /\ \A q \in MCGroup(p) : pc[q] = "redistMC"
    /\ A1_MC_Star' =
           [q \in Procs(grid) |->
               IF q \in MCGroup(p) THEN ToMCStar(in, A, ALw[p], q)
               ELSE A1_MC_Star[q]]
    /\ pc' = [q \in Procs(grid) |-> IF q \in MCGroup(p) THEN "redistMR" ELSE pc[q]]
    /\ UNCHANGED <<in, A, C, ALw, A1_MR_Star>>

\* A1_MR_Star = A1_MC_Star: a permutation over the whole grid.
RedistMR ==
    /\ \A q \in Procs(grid) : pc[q] = "redistMR"
    /\ A1_MR_Star' = [q \in Procs(grid) |-> ToMRStar(in, A1_MC_Star, ALw[q], q)]
    /\ pc' = [q \in Procs(grid) |-> "update"]
    /\ UNCHANGED <<in, A, C, ALw, A1_MC_Star>>

\* What a release build can leave in a buffer whose update ran on
\* nonconformal operands (reads and writes outside the local blocks): the
\* buffer as it was, or overwritten.
Garbage(buf) == {buf, [y \in DOMAIN buf |-> Cx(0 - 1, 0 - 1)]}

\* HerkUNUpdate( alpha, A1_MC_Star, A1_MR_Star, 1, C ), FreeConstraints,
\* SlideLockedPartitionRight and the next loop test.
Update(p) ==
    /\ pc[p] = "update"
    /\ IF in.release /\ UpdateCheck(A1_MC_Star[p], A1_MR_Star[p], Mat(CDesc(in), C[p])) # "ok"
       THEN /\ C' \in {[C EXCEPT ![p] = b] : b \in Garbage(C[p])}
            /\ pc' = [pc EXCEPT ![p] = "undefined"]
            /\ UNCHANGED ALw
       ELSE LET res == PanelUpdate(in, p, A1_MC_Star[p], A1_MR_Star[p], C[p])
                w == ALw[p] + PanelWidth(in, ALw[p])
            IN  IF res.status # "ok"
                THEN /\ pc' = [pc EXCEPT ![p] = "error"]
                     /\ UNCHANGED <<C, ALw>>
                ELSE /\ C' = [C EXCEPT ![p] = res.buf]
                     /\ ALw' = [ALw EXCEPT ![p] = w]
                     /\ pc' = [pc EXCEPT ![p] = LoopPc(w)]
    /\ UNCHANGED <<in, A, A1_MC_Star, A1_MR_Star>>

Next ==
    \/ \E p \in Procs(grid) : Enter(p) /\ UNCHANGED driverVars
    \/ \E p \in Procs(grid) : RedistMC(p) /\ UNCHANGED driverVars
    \/ RedistMR /\ UNCHANGED driverVars
    \/ \E p \in Procs(grid) : Update(p) /\ UNCHANGED driverVars

Spec == Init /\ [][Next]_vars

(***************************************************************************)
(* Properties of the HerkUN execution.                                     *)
(***************************************************************************)
AllDone == \A p \in Procs(grid) : pc[p] = "done"

\* A and C are on one grid and A.Height = C.Height = C.Width.
Conformal(x) == x.sameGrid /\ x.cH = x.m /\ x.cW = x.m

\* Sum over t < n of A(i,t) * conj(A(j,t)) on the global fill of A.
RECURSIVE RefDot(_, _, _, _)
RefDot(x, i, j, n) ==
    IF n = 0 THEN CZero
    ELSE CAdd(RefDot(x, i, j, n - 1),
              CMul(AFill(x.aSeed, i, n - 1), Conj(AFill(x.aSeed, j, n - 1))))

\* beta * C0(i,j) + alpha * sum_t A(i,t) conj(A(j,t))
RefEntry(x, i, j) ==
    CAdd(CMul(x.beta, CFill(x.cSeed, i, j)), CMul(x.alpha, RefDot(x, i, j, x.k)))

CMats == [q \in Procs(grid) |-> Mat(CDesc(in), C[q])]

\* b1 and b2 agree on the entries of p's block of C with global i <= j.
UpperEq(p, b1, b2) ==
    \A y \in LocalIdx(grid, p, CDesc(in)) :
        GlobalRow(grid, p, CDesc(in), y[1]) <= GlobalCol(grid, p, CDesc(in), y[2])
            => b1[y] = b2[y]

\* C1: once a process has returned from HerkUN on conformal operands, every
\* entry (i,j) with i <= j that it stores equals
\* beta*C0(i,j) + alpha*sum_t A(i,t)*conj(A(j,t)), and every such entry is
\* stored by some process.
C1_RankKCorrect ==
    Conformal(in) =>
        /\ \A p \in Procs(grid) :
             pc[p] = "done" =>
               \A y \in LocalIdx(grid, p, CDesc(in)) :
                 LET i == GlobalRow(grid, p, CDesc(in), y[1])
                     j == GlobalCol(grid, p, CDesc(in), y[2])
                 IN  i <= j => C[p][y] = RefEntry(in, i, j)
        /\ \A i \in 0 .. (in.m - 1) : \A j \in i .. (in.m - 1) :
             \E p \in Procs(grid) : Owns(grid, p, CDesc(in), i, j)

\* A finished run on a 2 x 2 grid with two panels and a recursive split,
\* whose entry (0,3) holds its reference value.
C1_Witness ==
    /\ AllDone /\ Conformal(in)
    /\ in.shape = <<2, 2>> /\ in.nb = 1 /\ in.m = 4 /\ in.k = 2
    /\ in.alpha = Cx(3, 0) /\ in.beta = Cx(4, 0)
    /\ in.m >= Threshold(grid, in.nb)
    /\ Fetch(grid, CMats, 0, 3) = RefEntry(in, 0, 3)
    /\ Fetch(grid, CMats, 0, 3) # CMul(in.beta, CFill(in.cSeed, 0, 3))

\* C2: with alpha = 0 and beta = 1 no entry of C, in either triangle, ever
\* differs from its initial value, at any point of the execution.
C2_IdempotentRescale ==
    (Conformal(in) /\ in.alpha = CZero /\ in.beta = COne) =>
        \A p \in Procs(grid) : C[p] = LocalC(in, p)

\* A finished run with alpha = 0, beta = 1 that went through several panels
\* and a recursive split on a 2 x 2 grid.
C2_Witness ==
    /\ AllDone /\ Conformal(in)
    /\ in.alpha = CZero /\ in.beta = COne
    /\ in.shape = <<2, 2>> /\ in.k > in.nb /\ in.m >= Threshold(grid, in.nb)
    /\ \A p \in Procs(grid) : C[p] = LocalC(in, p) /\ DOMAIN C[p] # {}

\* C3: the upper triangle a finished run leaves in C equals the upper
\* triangle HerkUN computes from the same inputs under any other block size.
C3_BlockSizeIndependent ==
    (AllDone /\ Conformal(in)) =>
        \A nb2 \in 1 .. MaxNb : \A p \in Procs(grid) :
            UpperEq(p, C[p], HerkUN([in EXCEPT !.nb = nb2], A, p, LocalC(in, p)))

\* A finished run with nb = 2 (one panel, no split: 3 < 2*1*2) whose
\* counterpart with nb = 1 has two panels and splits (3 >= 2*1*1).
C3_Witness ==
    /\ AllDone /\ Conformal(in)
    /\ in.nb = 2 /\ in.k = 2 /\ in.m = 3 /\ in.shape = <<2, 1>>
    /\ in.alpha = Cx(3, 0)
    /\ in.m < Threshold(grid, 2) /\ in.m >= Threshold(grid, 1)

\* The descriptor of the panel A1 (a view of A) without its local offsets.
PanelDesc(w) ==
    LET V == A1(in, A, 0, w).V IN [V EXCEPT !.iOff = 0, !.jOff = 0]

Invalid(x) == ~x.sameGrid \/ x.m # x.cH \/ x.m # x.cW

\* No process has gone past the entry of HerkUN, C is as it was and no
\* redistribution has been issued.
StoppedAtEntry ==
    \A p \in Procs(grid) :
        /\ pc[p] \in {"entry", "error"}
        /\ C[p] = LocalC(in, p)
        /\ A1_MC_Star[p] = NoMat /\ A1_MR_Star[p] = NoMat

\* C10 as stated: invalid operands stop every process at entry, in every
\* build.
C10_Original == Invalid(in) => StoppedAtEntry

\* C10, amended: in a build without RELEASE, invalid operands stop every
\* process at entry with C unscaled and no redistribution issued.
C10_FatalAtEntryDebug == (Invalid(in) /\ ~in.release) => StoppedAtEntry

\* Every process of a 2 x 2 grid has raised the entry error for a C that is
\* one column wider than A is tall.
C10_Witness ==
    /\ Invalid(in) /\ ~in.release
    /\ in.shape = <<2, 2>> /\ in.cW = in.m + 1 /\ in.cH = in.m /\ in.sameGrid
    /\ \A p \in Procs(grid) : pc[p] = "error" /\ C[p] = LocalC(in, p)

\* Panels that lie wholly before column w.
PanelsBefore(w) == (w + in.nb - 1) \div in.nb

\* The collective redistributions p has taken part in: two for every panel
\* it has finished, and those of the panel it is working on.
Issued(p) ==
    2 * PanelsBefore(ALw[p])
      + (CASE pc[p] = "redistMR" -> 1 [] pc[p] = "update" -> 2 [] OTHER -> 0)

Returned(p) == pc[p] \in {"done", "error", "undefined"}

\* Some process can take a step: one that is not inside a redistribution,
\* a group whose members have all entered A1_MC_Star = A1, or the whole
\* grid having entered A1_MR_Star = A1_MC_Star.
CanStep ==
    \/ \E p \in Procs(grid) : pc[p] \in {"entry", "update"}
    \/ \E p \in Procs(grid) : \A q \in MCGroup(p) : pc[q] = "redistMC"
    \/ \A q \in Procs(grid) : pc[q] = "redistMR"

\* The step of a process that leaves the update touches nothing but its own
\* C, column counter and position.
UpdateIsLocal ==
    \A p \in Procs(grid) :
        (pc[p] = "update" /\ pc'[p] # "update") =>
            /\ A1_MC_Star' = A1_MC_Star /\ A1_MR_Star' = A1_MR_Star /\ A' = A
            /\ \A q \in Procs(grid) \ {p} :
                 C'[q] = C[q] /\ pc'[q] = pc[q] /\ ALw'[q] = ALw[q]

Lockstep ==
    /\ \A p, q \in Procs(grid) : Issued(p) - Issued(q) \in {0 - 1, 0, 1}
    /\ \A p \in Procs(grid) :
         /\ pc[p] # "error"
         /\ pc[p] = "done" =>
              Issued(p) = 2 * PanelsBefore(in.k) /\ ALw[p] = in.k
    /\ (\A p \in Procs(grid) : Returned(p)) \/ CanStep

\* C11: on conformal operands no two processes are ever more than one
\* collective apart, a process that has returned has issued two collectives
\* for each of the ceil(k/nb) panels, some process can always step until all
\* have returned, and the update step of a process involves no other
\* process.
C11_SPMDLockstep ==
    /\ [](Conformal(in) => Lockstep)
    /\ [][Conformal(in) => UpdateIsLocal]_vars

\* On a 2 x 2 grid with two panels the processes of grid row 0 have gathered
\* the second panel while process 1 is still updating with the first.
C11_Witness ==
    /\ Conformal(in) /\ in.shape = <<2, 2>> /\ in.nb = 1 /\ in.k = 2
    /\ pc[0] = "redistMR" /\ ALw[0] = 1 /\ Issued(0) = 3
    /\ pc[1] = "update" /\ ALw[1] = 0 /\ Issued(1) = 2

\* The inputs of the run with the other fill of the strictly lower triangle
\* of C; the fills agree on and above the diagonal.
LowerVariant(x) == [x EXCEPT !.cSeed = 1 - x.cSeed]

\* C12: the upper triangle a finished run leaves in C is the one HerkUN
\* leaves when the strictly lower triangle of the initial C holds other
\* values.
C12_LowerNeverRead ==
    (AllDone /\ Conformal(in)) =>
        \A p \in Procs(grid) :
            UpperEq(p, C[p],
                    HerkUN(LowerVariant(in), A, p, LocalC(LowerVariant(in), p)))

\* A finished run with beta = 4 on a 2 x 2 grid with a recursive split: some
\* process starts from a different lower triangle in the two runs and ends
\* with different buffers, equal on and above the diagonal.
C12_Witness ==
    /\ AllDone /\ Conformal(in)
    /\ in.shape = <<2, 2>> /\ in.m = 4 /\ in.k = 2 /\ in.nb = 1
    /\ in.beta = Cx(4, 0) /\ in.alpha = Cx(3, 0)
    /\ \E p \in Procs(grid) :
         /\ LocalC(LowerVariant(in), p) # LocalC(in, p)
         /\ HerkUN(LowerVariant(in), A, p, LocalC(LowerVariant(in), p)) # C[p]
         /\ UpperEq(p, C[p],
                    HerkUN(LowerVariant(in), A, p, LocalC(LowerVariant(in), p)))
         /\ \E y \in LocalIdx(grid, p, CDesc(in)) :
              GlobalRow(grid, p, CDesc(in), y[1]) < GlobalCol(grid, p, CDesc(in), y[2])

\* beta * C0(i,j) + alpha * (sum over the first w columns of A), above and
\* on the diagonal; beta * C0(i,j) below it.
PartialEntry(x, i, j, w) ==
    IF i <= j
    THEN CAdd(CMul(x.beta, CFill(x.cSeed, i, j)), CMul(x.alpha, RefDot(x, i, j, w)))
    ELSE CMul(x.beta, CFill(x.cSeed, i, j))

\* C14: on conformal operands C is untouched until the entry step, which
\* multiplies all of it by beta; from then on, when the panels of the first
\* w columns of A have been applied, every stored entry is beta*C0 plus
\* alpha times the sum over exactly those columns (the entries below the
\* diagonal stay beta*C0), so beta is applied once and each panel is added
\* with coefficient 1; with k = 0 no panel runs and C = beta*C0.
C14_SingleBetaScale ==
    Conformal(in) =>
        \A p \in Procs(grid) :
            /\ pc[p] = "entry" => C[p] = LocalC(in, p) /\ ALw[p] = 0
            /\ pc[p] \in {"redistMC", "redistMR", "update", "done"} =>
                 \A y \in LocalIdx(grid, p, CDesc(in)) :
                     C[p][y] = PartialEntry(in, GlobalRow(grid, p, CDesc(in), y[1]),
                                            GlobalCol(grid, p, CDesc(in), y[2]),
                                            ALw[p])
            /\ in.k = 0 => pc[p] \in {"entry", "done"} /\ ALw[p] = 0

\* Between the two panels of a run with beta = 4, alpha = 3 on a 2 x 2
\* grid: a process holds an entry above the diagonal that is beta*C0 plus
\* the first panel's contribution, and is neither beta*C0 nor the final
\* value.
C14_Witness ==
    /\ Conformal(in) /\ in.shape = <<2, 2>> /\ in.nb = 1 /\ in.k = 2 /\ in.m = 4
    /\ in.alpha = Cx(3, 0) /\ in.beta = Cx(4, 0)
    /\ \E p \in Procs(grid) :
         /\ pc[p] = "redistMC" /\ ALw[p] = 1
         /\ \E y \in LocalIdx(grid, p, CDesc(in)) :
              LET i == GlobalRow(grid, p, CDesc(in), y[1])
                  j == GlobalCol(grid, p, CDesc(in), y[2])
              IN  /\ i < j
                  /\ C[p][y] = PartialEntry(in, i, j, 1)
                  /\ C[p][y] # CMul(in.beta, CFill(in.cSeed, i, j))
                  /\ C[p][y] # RefEntry(in, i, j)

\* The panel a process is working on starts at a multiple of nb, is not
\* empty, is nb wide unless it is the last one, and the copies the process
\* holds of it have its width; a process that has returned has consumed all
\* k columns.
PanelShape(p) ==
    /\ ALw[p] \in 0 .. in.k
    /\ pc[p] \in {"redistMC", "redistMR", "update"} =>
         /\ ALw[p] < in.k /\ ALw[p] % in.nb = 0
         /\ PanelWidth(in, ALw[p]) \in 1 .. in.nb
         /\ PanelWidth(in, ALw[p]) < in.nb =>
                ALw[p] + PanelWidth(in, ALw[p]) = in.k
    /\ pc[p] \in {"redistMR", "update"} =>
         A1_MC_Star[p].V.width = PanelWidth(in, ALw[p])
    /\ pc[p] = "update" => A1_MR_Star[p].V.width = PanelWidth(in, ALw[p])
    /\ pc[p] = "done" => ALw[p] = in.k

\* One step of process p: the [MC,*] redistribution, then the [MR,*]
\* redistribution, then the update; only the update moves the boundary of
\* AL, to the right, by exactly the width of its panel.
PanelOrder(p) ==
    /\ pc'[p] # pc[p] =>
         \/ pc[p] = "entry" /\ pc'[p] \in {"redistMC", "done"} /\ ALw[p] = 0
         \/ pc[p] = "redistMC" /\ pc'[p] = "redistMR"
         \/ pc[p] = "redistMR" /\ pc'[p] = "update"
         \/ pc[p] = "update" /\ pc'[p] \in {"redistMC", "done"}
    /\ ALw'[p] # ALw[p] =>
         /\ pc[p] = "update"
         /\ ALw'[p] = ALw[p] + PanelWidth(in, ALw[p])
         /\ ALw'[p] > ALw[p]
    /\ (pc[p] = "update" /\ pc'[p] \in {"redistMC", "done"}) =>
         ALw'[p] = ALw[p] + PanelWidth(in, ALw[p])

\* C15: on conformal operands every process takes the panels of A left to
\* right: each panel starts where the previous one ended, is nb wide except
\* possibly the last, the panels end at column k, and within each panel the
\* [MC,*] redistribution precedes the [MR,*] redistribution, which precedes
\* the local update.
C15_PanelOrder ==
    /\ [](Conformal(in) => \A p \in Procs(grid) : PanelShape(p))
    /\ [][Conformal(in) => \A p \in Procs(grid) : PanelOrder(p)]_vars

\* Process 0 is at the update of the second panel of a two-column A taken
\* one column at a time, holding both one-column copies of it.
C15_Witness ==
    /\ Conformal(in) /\ in.shape = <<2, 2>> /\ in.nb = 1 /\ in.k = 2 /\ in.m = 4
    /\ pc[0] = "update" /\ ALw[0] = 1
    /\ A1_MC_Star[0].V.width = 1 /\ A1_MR_Star[0].V.width = 1
    /\ PanelsBefore(ALw[0]) = 1

\* The operands of a call of HerkUNUpdate pass its checks, the views it
\* takes at half are aligned with each other, and the same holds for the
\* two calls it makes when it splits.
RECURSIVE AlignedBelow(_, _, _, _)
AlignedBelow(p, AMC, AMR, CV) ==
    LET half == CV.height \div 2
        MC   == LockedPartitionDown(grid, p, AMC, half)
        MR   == LockedPartitionDown(grid, p, AMR, half)
        CP   == PartitionDownDiagonal(grid, p, CV, half)
    IN  /\ UpdateCheck(Mat(AMC, <<>>), Mat(AMR, <<>>), Mat(CV, <<>>)) = "ok"
        /\ MC.T.colAlign = CP.TL.colAlign /\ MR.T.colAlign = CP.TL.rowAlign
        /\ MC.T.colAlign = CP.TR.colAlign /\ MR.B.colAlign = CP.TR.rowAlign
        /\ MC.B.colAlign = CP.BR.colAlign /\ MR.B.colAlign = CP.BR.rowAlign
        /\ MC.B.colAlign = ShiftAlign(AMC.colAlign, half, grid.r)
        /\ CP.BR.colAlign = ShiftAlign(CV.colAlign, half, grid.r)
        /\ MR.B.colAlign = ShiftAlign(AMR.colAlign, half, grid.c)
        /\ CP.BR.rowAlign = ShiftAlign(CV.rowAlign, half, grid.c)
        /\ CV.height >= Threshold(grid, in.nb) =>
             /\ AlignedBelow(p, MC.T, MR.T, CP.TL)
             /\ AlignedBelow(p, MC.B, MR.B, CP.BR)

\* C19: on conformal operands the copies of the panel are aligned with C
\* (A1_MC_Star's column alignment is C's column alignment, A1_MR_Star's
\* column alignment is C's row alignment); at every level of the update the
\* views taken at half shift the alignments of A_MC_Star, A_MR_Star and C
\* alike, so every call passes the conformality and alignment checks and no
\* process ever raises an error.
C19_AlignmentPreserved ==
    Conformal(in) =>
        \A p \in Procs(grid) :
            /\ pc[p] \notin {"error", "undefined"}
            /\ pc[p] \in {"redistMR", "update"} =>
                 A1_MC_Star[p].V.colAlign = CDesc(in).colAlign
            /\ pc[p] = "update" =>
                 /\ A1_MR_Star[p].V.colAlign = CDesc(in).rowAlign
                 /\ AlignedBelow(p, A1_MC_Star[p].V, A1_MR_Star[p].V, CDesc(in))

\* Process 0 of a 2 x 1 grid is at the update of a 3 x 3 C with column
\* alignment 1 and nb = 1 (threshold 2): the call splits at half = 1, which
\* moves the column alignment of CBR and of the bottom of A1_MC_Star from 1
\* to 0.
C19_Witness ==
    /\ Conformal(in) /\ ~in.release
    /\ in.shape = <<2, 1>> /\ in.m = 3 /\ in.nb = 1 /\ in.cColAlign = 1
    /\ pc[0] = "update"
    /\ A1_MC_Star[0].V.colAlign = 1
    /\ in.m >= Threshold(grid, in.nb)
    /\ LockedPartitionDown(grid, 0, A1_MC_Star[0].V, 1).B.colAlign = 0
    /\ PartitionDownDiagonal(grid, 0, CDesc(in), 1).BR.colAlign = 0

(***************************************************************************)
(* Termination.  Every process keeps running and a collective completes   *)
(* once all its members have entered it, so a step that is possible is    *)
(* eventually taken.  CanStep is the enabling condition of Next written    *)
(* out on the guards of its actions, and every step of Next changes pc, so *)
(* weak fairness of Next is weak fairness of "pc changes while CanStep".   *)
(***************************************************************************)
PcValues == {"entry", "redistMC", "redistMR", "update", "done", "error", "undefined"}

Proceed == CanStep /\ pc' \in [Procs(grid) -> PcValues]

SpecFair == Spec /\ WF_pc(Proceed)

\* A block that is split is split into two blocks that are not empty and
\* strictly smaller.
SplitsShrink ==
    \A h \in Threshold(grid, in.nb) .. in.m :
        /\ h \div 2 \in 1 .. (h - 1)
        /\ h - (h \div 2) \in 1 .. (h - 1)

\* C20: every run of HerkUN ends with every process out of HerkUN, and on
\* conformal operands with every process returned; a process that has
\* returned has run ceil(k/nb) iterations of the panel loop (two
\* redistributions each); and every split of the recursive update is into
\* two blocks that are not empty and strictly smaller than the block split,
\* so no update nests without end.
C20_Termination ==
    /\ <>(\A p \in Procs(grid) : Returned(p))
    /\ Conformal(in) => <>AllDone
    /\ [](Conformal(in) =>
            \A p \in Procs(grid) :
              /\ pc[p] \notin {"error", "undefined"}
              /\ pc[p] = "done" =>
                   /\ PanelsBefore(ALw[p]) = (in.k + in.nb - 1) \div in.nb
                   /\ Issued(p) = 2 * ((in.k + in.nb - 1) \div in.nb))
    /\ []SplitsShrink

\* All four processes of a 2 x 2 grid have returned from a run with a 4 x 4
\* C (split once: 4 >= 2*2*1) and two panels of one column.
C20_Witness ==
    /\ AllDone /\ in.shape = <<2, 2>> /\ in.m = 4 /\ in.k = 2 /\ in.nb = 1
    /\ in.m >= Threshold(grid, in.nb)
    /\ \A p \in Procs(grid) : Issued(p) = 4 /\ ALw[p] = 2

(***************************************************************************)
(* The test driver's main up to the construction of the process grid.      *)
(* in = [commSize, r]: the size of the communicator and the --r argument   *)
(* (0 when it is left out); main[p] holds p's locals r, c, g and its       *)
(* position.                                                               *)
(***************************************************************************)
NoGrid == Grid(0, 0, 0)

\* Grid::FindFactor: the largest divisor of the process count that does not
\* exceed its square root.
FindFactor(n) ==
    CHOOSE f \in 1 .. n :
        /\ n % f = 0 /\ f * f <= n
        /\ \A h \in 1 .. n : (n % h = 0 /\ h * h <= n) => h <= f

\* A slip: any height up to the process count is let through.
InvalidHeight_TooBig(n, r) == r > n

\* if( commSize % r != 0 )
InvalidHeight(n, r) == n % r # 0

\* const int c = commSize / r;
GridWidth(n, r) == n \div r

\* Grid( comm, r, c ) fails unless r*c is the process count.
GridFits(n, r, c) == r * c = n

DriverInit ==
    /\ \E n \in 1 .. MaxProcs : \E r \in 0 .. (n + 1) :
         /\ in = [commSize |-> n, r |-> r]
         /\ main = [p \in 0 .. (n - 1) |->
                      [pc |-> "args", r |-> r, c |-> 0, g |-> NoGrid]]
    /\ pc = Unused /\ A = Unused /\ C = Unused /\ ALw = Unused
    /\ A1_MC_Star = Unused /\ A1_MR_Star = Unused /\ dm = Unused
    /\ upd = Unused /\ ipf = Unused /\ LibIdle

\* if( r == 0 ) r = Grid::FindFactor( commSize );
\* if( commSize % r != 0 ) throw std::logic_error(...);
ChooseHeight(p) ==
    /\ main[p].pc = "args"
    /\ LET r == IF main[p].r = 0 THEN FindFactor(in.commSize) ELSE main[p].r
       IN  main' = [main EXCEPT ![p] =
                      [@ EXCEPT !.r = r,
                                !.pc = IF InvalidHeight(in.commSize, r)
                                       THEN "caught" ELSE "checked"]]
    /\ UNCHANGED <<in, kernelVars, dm, upd, ipf, libVars>>

\* A slip: the grid is built with height and width exchanged.
Construct_Swapped(p) ==
    /\ main[p].pc = "checked"
    /\ LET c == GridWidth(in.commSize, main[p].r)
       IN  main' = [main EXCEPT ![p] =
                      [@ EXCEPT !.c = c, !.g = Grid(c, main[p].r, 1), !.pc = "grid"]]
    /\ UNCHANGED <<in, kernelVars, dm, upd, ipf, libVars>>

\* const int c = commSize / r; const Grid g( comm, r, c );
Construct(p) ==
    /\ main[p].pc = "checked"
    /\ LET c == GridWidth(in.commSize, main[p].r)
       IN  main' = [main EXCEPT ![p] =
                      IF GridFits(in.commSize, main[p].r, c)
                      THEN [@ EXCEPT !.c = c, !.g = Grid(main[p].r, c, 1),
                                     !.pc = "grid"]
                      ELSE [@ EXCEPT !.c = c, !.pc = "caught"]]
    /\ UNCHANGED <<in, kernelVars, dm, upd, ipf, libVars>>

\* SetBlocksize, TestHer2k<double>, TestHer2k<Complex<double> >, Finalize
RunTests(p) ==
    /\ main[p].pc = "grid"
    /\ main' = [main EXCEPT ![p] = [@ EXCEPT !.pc = "tested"]]
    /\ UNCHANGED <<in, kernelVars, dm, upd, ipf, libVars>>

\* catch( exception& e ) { ... } Finalize
Catch(p) ==
    /\ main[p].pc = "caught"
    /\ main' = [main EXCEPT ![p] = [@ EXCEPT !.pc = "failed"]]
    /\ UNCHANGED <<in, kernelVars, dm, upd, ipf, libVars>>

DriverNext ==
    \/ \E p \in DOMAIN main : ChooseHeight(p)
    \/ \E p \in DOMAIN main : Construct(p)
    \/ \E p \in DOMAIN main : RunTests(p)
    \/ \E p \in DOMAIN main : Catch(p)

SpecGrid == DriverInit /\ [][DriverNext]_vars

\* The grid coordinates of rank p.
Coord(g, p) == <<MCRank(g, p), MRRank(g, p)>>

\* C8: every grid a process has constructed has r, c >= 1 and r*c equal to
\* the process count, its height is the requested one (or the factor found
\* for an unspecified height), all constructed grids are the same, and
\* rank -> (rank mod r, rank div r) maps the ranks one-to-one onto
\* {0..r-1} x {0..c-1}.
C8_GridMapping ==
    \A p \in DOMAIN main :
        main[p].g # NoGrid =>
            LET g == main[p].g
            IN  /\ g.r >= 1 /\ g.c >= 1 /\ g.r * g.c = in.commSize
                /\ g.r = (IF in.r = 0 THEN FindFactor(in.commSize) ELSE in.r)
                /\ \A q \in DOMAIN main : main[q].g # NoGrid => main[q].g = g
                /\ \A q \in Procs(g) : Coord(g, q) \in (0 .. (g.r - 1)) \X (0 .. (g.c - 1))
                /\ \A q1, q2 \in Procs(g) : Coord(g, q1) = Coord(g, q2) => q1 = q2
                /\ \A rc \in (0 .. (g.r - 1)) \X (0 .. (g.c - 1)) :
                     \E q \in Procs(g) : Coord(g, q) = rc
                /\ Procs(g) = DOMAIN main

\* All six processes hold the 2 x 3 grid chosen for an unspecified height,
\* and rank 5 sits at (1, 2).
C8_Witness ==
    /\ in.commSize = 6 /\ in.r = 0
    /\ \A p \in DOMAIN main : main[p].g = Grid(2, 3, 1)
    /\ Coord(main[5].g, 5) = <<1, 2>>

\* C9: when the requested height does not divide the process count, no
\* process gets past the check: none computes c, constructs a grid or runs
\* a test, and each one that has executed the check has thrown; when the
\* height is left unspecified the chosen one divides the process count and
\* no process throws.
C9_HeightRejected ==
    /\ (in.r # 0 /\ in.commSize % in.r # 0) =>
          \A p \in DOMAIN main :
              /\ main[p].pc \in {"args", "caught", "failed"}
              /\ main[p].g = NoGrid /\ main[p].c = 0
    /\ in.r = 0 =>
          \A p \in DOMAIN main :
              /\ main[p].pc \notin {"caught", "failed"}
              /\ main[p].pc # "args" =>
                    (main[p].r >= 1 /\ in.commSize % main[p].r = 0)

\* Six processes asked for height 4: every one has thrown and been caught,
\* none holds a grid.
C9_Witness ==
    /\ in.commSize = 6 /\ in.r = 4
    /\ \A p \in DOMAIN main : main[p].pc = "failed" /\ main[p].g = NoGrid

(***************************************************************************)
(* A distributed matrix on its own: declared with a legal descriptor over  *)
(* a grid, sized, and then viewed by repeated diagonal partitioning, every *)
(* process acting on its own copy of the descriptor.                       *)
(* dm = [g, V0, stage, i0, j0, loc]: V0 is the declared matrix, (i0, j0)   *)
(* the position in V0 of the block now viewed, loc[p] what process p       *)
(* holds: its view V and the local height and width it computed.           *)
(***************************************************************************)
MaxGridDim == 2
MaxDim == 3

DistShapes == (1 .. MaxGridDim) \X (1 .. MaxGridDim)

Declared(g, pair, ca, ra, root, h, w) ==
    [DistMatrix(pair[1], pair[2], ca, ra, h, w) EXCEPT !.root = root]

DistInit ==
    /\ \E sh \in DistShapes, pair \in LegalPairs, h \in 0 .. MaxDim, w \in 0 .. MaxDim :
         LET g == Grid(sh[1], sh[2], 1) IN
         \E ca \in 0 .. (Stride(g, pair[1]) - 1), ra \in 0 .. (Stride(g, pair[2]) - 1),
            root \in (IF "CIRC" \in {pair[1], pair[2]} THEN Procs(g) ELSE {0}) :
           dm = [g |-> g, V0 |-> Declared(g, pair, ca, ra, root, h, w),
                 stage |-> "declared", i0 |-> 0, j0 |-> 0,
                 loc |-> [p \in Procs(g) |->
                            [V |-> Declared(g, pair, ca, ra, root, h, w),
                             lh |-> 0, lw |-> 0]]]
    /\ in = Unused /\ main = Unused /\ upd = Unused /\ ipf = Unused /\ LibIdle
    /\ pc = Unused /\ A = Unused /\ C = Unused /\ ALw = Unused
    /\ A1_MC_Star = Unused /\ A1_MR_Star = Unused

Sized(g, p, V) == [V |-> V, lh |-> LocalHeight(g, p, V), lw |-> LocalWidth(g, p, V)]

\* ResizeTo: each process allocates its local block.
ResizeTo ==
    /\ dm.stage = "declared"
    /\ dm' = [dm EXCEPT !.stage = "sized",
                        !.loc = [p \in Procs(dm.g) |-> Sized(dm.g, p, dm.loc[p].V)]]
    /\ UNCHANGED <<in, kernelVars, main, upd, ipf, libVars>>

\* const unsigned half = C.Height() / 2;
Half(V) == V.height \div 2

\* PartitionDownDiagonal( C, CTL, CTR, CBL, CBR, half ) followed by work on
\* one of the quadrants the update touches: the Gemm on CTR, the nested
\* calls on CTL and CBR.
TakeQuadrant(quad) ==
    /\ dm.stage \in {"sized", "viewed"}
    /\ LET V == dm.loc[0].V
           d == Min(Half(V), Min(V.height, V.width))
       IN  dm' = [dm EXCEPT
                    !.stage = "viewed",
                    !.i0 = IF quad \in {"BL", "BR"} THEN @ + d ELSE @,
                    !.j0 = IF quad \in {"TR", "BR"} THEN @ + d ELSE @,
                    !.loc = [p \in Procs(dm.g) |->
                               Sized(dm.g, p,
                                     PartitionDownDiagonal(dm.g, p, dm.loc[p].V,
                                                           Half(dm.loc[p].V))[quad])]]
    /\ UNCHANGED <<in, kernelVars, main, upd, ipf, libVars>>

DistNext ==
    \/ ResizeTo
    \/ \E quad \in {"TL", "TR", "BR"} : TakeQuadrant(quad)

SpecDist == DistInit /\ [][DistNext]_vars

\* The rows and columns of the declared matrix V0 that the block now viewed
\* covers.
ViewRows == dm.i0 .. (dm.i0 + dm.loc[0].V.height - 1)
ViewCols == dm.j0 .. (dm.j0 + dm.loc[0].V.width - 1)

\* The entries of V0 that p's local block holds: local index (a, b) of the
\* view is the view's entry (GlobalRow(a), GlobalCol(b)).
Stored(p) ==
    { <<dm.i0 + GlobalRow(dm.g, p, dm.loc[p].V, a),
        dm.j0 + GlobalCol(dm.g, p, dm.loc[p].V, b)>> :
      a \in 0 .. (dm.loc[p].lh - 1), b \in 0 .. (dm.loc[p].lw - 1) }

Holders(i, j) == {p \in Procs(dm.g) : <<i, j>> \in Stored(p)}

\* The number of processes a descriptor places each entry on: one for a
\* single-process matrix, otherwise the processes of the grid divided by
\* the strides of the two dimensions.
Copies(g, V) ==
    IF "CIRC" \in {V.colDist, V.rowDist} THEN 1
    ELSE (g.r * g.c) \div (ColStride(g, V) * RowStride(g, V))

OwnsRowOfV0(p, i) ==
    /\ Participates(p, dm.V0)
    /\ i % ColStride(dm.g, dm.V0) =
         (DistRank(dm.g, dm.V0.colDist, p) + dm.V0.colAlign) % ColStride(dm.g, dm.V0)
OwnsColOfV0(p, j) ==
    /\ Participates(p, dm.V0)
    /\ j % RowStride(dm.g, dm.V0) =
         (DistRank(dm.g, dm.V0.rowDist, p) + dm.V0.rowAlign) % RowStride(dm.g, dm.V0)

\* One process for each coordinate of the dimension a distribution spreads.
Rep(d, s) ==
    CHOOSE p \in Procs(dm.g) : Participates(p, dm.V0) /\ DistRank(dm.g, d, p) = s

RECURSIVE SumHeights(_)
SumHeights(n) ==
    IF n = 0 THEN 0
    ELSE SumHeights(n - 1) + dm.loc[Rep(dm.V0.colDist, n - 1)].lh
RECURSIVE SumWidths(_)
SumWidths(n) ==
    IF n = 0 THEN 0
    ELSE SumWidths(n - 1) + dm.loc[Rep(dm.V0.rowDist, n - 1)].lw

\* C7: the local height (width) every process computed, for the declared
\* matrix and for every view of it, is the number of rows (columns) of the
\* block that it owns under the rule of V0; the local offset of a view on a
\* process that holds storage is the number of owned rows (columns) before
\* the block; and the local
\* heights (widths) over the coordinates of the distributed dimension sum
\* to the height (width) of the block.
C7_LocalSize ==
    dm.stage # "declared" =>
        /\ \A p \in Procs(dm.g) :
             /\ dm.loc[p].lh = Cardinality({i \in ViewRows : OwnsRowOfV0(p, i)})
             /\ dm.loc[p].lw = Cardinality({j \in ViewCols : OwnsColOfV0(p, j)})
             /\ Participates(p, dm.V0) =>
                  /\ dm.loc[p].V.iOff =
                       Cardinality({i \in 0 .. (dm.i0 - 1) : OwnsRowOfV0(p, i)})
                  /\ dm.loc[p].V.jOff =
                       Cardinality({j \in 0 .. (dm.j0 - 1) : OwnsColOfV0(p, j)})
        /\ SumHeights(ColStride(dm.g, dm.V0)) = dm.loc[0].V.height
        /\ SumWidths(RowStride(dm.g, dm.V0)) = dm.loc[0].V.width

\* The bottom-right 2 x 2 view, taken at half = 1, of a 3 x 3 [MC,MR]
\* matrix aligned at (1,1) on a 2 x 2 grid: process 1 holds one row of it,
\* after one row of its own above the view.
C7_Witness ==
    /\ dm.stage = "viewed" /\ dm.g = Grid(2, 2, 1)
    /\ dm.V0.colDist = "MC" /\ dm.V0.rowDist = "MR"
    /\ dm.V0.colAlign = 1 /\ dm.V0.rowAlign = 1
    /\ dm.V0.height = 3 /\ dm.V0.width = 3
    /\ dm.i0 = 1 /\ dm.j0 = 1 /\ dm.loc[0].V.height = 2
    /\ dm.loc[1].V.colAlign = 0
    /\ dm.loc[1].lh = 1 /\ dm.loc[1].V.iOff = 1

(***************************************************************************)
(* The recursive update with its base-case threshold forced.  Each process *)
(* holds the whole of A as one panel in [MC,*] and [MR,*], aligned with C, *)
(* and two copies of its block of C: on one it runs the update with a      *)
(* threshold above the height of C (the kernel alone), on the other the    *)
(* update with the threshold forced to in.thr.                             *)
(***************************************************************************)
MaxThr == 3

ThresholdInputs ==
    { [Input(sh, ca, ra, TRUE, FALSE, k, m, k, m, m, cs) EXCEPT !.cSeed = 0]
        @@ [thr |-> thr] :
      sh \in GridShapes, ca \in 0 .. 1, ra \in 0 .. 1,
      m \in 0 .. MaxM, k \in {MaxNb}, thr \in 0 .. MaxThr,
      cs \in {c \in Cases : c.alpha # CZero /\ c.beta # CZero} }

ThresholdInit ==
    /\ \E x \in ThresholdInputs :
         /\ x.cColAlign < x.shape[1] /\ x.cRowAlign < x.shape[2]
         /\ in = x
         /\ pc = [p \in Procs(GridOf(x)) |-> "call"]
         /\ A = [p \in Procs(GridOf(x)) |-> LocalA(x, p)]
         /\ C = [p \in Procs(GridOf(x)) |->
                   [kernel |-> LocalC(x, p), forced |-> LocalC(x, p)]]
         /\ ALw = [p \in Procs(GridOf(x)) |-> 0]
         /\ A1_MC_Star = [p \in Procs(GridOf(x)) |->
                            ToMCStar(x, [q \in Procs(GridOf(x)) |-> LocalA(x, q)], 0, p)]
         /\ A1_MR_Star = [p \in Procs(GridOf(x)) |->
                            ToMRStar(x, [q \in Procs(GridOf(x)) |->
                                           ToMCStar(x, [s \in Procs(GridOf(x)) |->
                                                          LocalA(x, s)], 0, q)], 0, p)]
    /\ main = Unused /\ dm = Unused /\ upd = Unused /\ ipf = Unused /\ LibIdle

\* How a call of the update ends: returned, failed a check, or nested
\* without end.
EndPc(res) ==
    CASE res.status = "ok" -> "done"
      [] res.status = "overflow" -> "overflow"
      [] OTHER -> "error"

\* The update with the threshold above C.Height(): the first test sends the
\* call to HerkUNUpdateKernel.
AlwaysKernel(p) ==
    /\ pc[p] = "call"
    /\ LET res == HerkUNUpdateAt(in.m + 1, 0, grid, p, in.release, in.alpha,
                                 A1_MC_Star[p], A1_MR_Star[p], in.beta,
                                 Mat(CDesc(in), C[p].kernel))
       IN  /\ C' = [C EXCEPT ![p].kernel = res.buf]
           /\ pc' = [pc EXCEPT ![p] = IF res.status = "ok" THEN "forced" ELSE "error"]
    /\ UNCHANGED <<in, A, ALw, A1_MC_Star, A1_MR_Star, driverVars>>

\* The update with the threshold in.thr in place of
\* 2*grid.Width()*Blocksize().
ForcedThreshold(p) ==
    /\ pc[p] = "forced"
    /\ LET res == HerkUNUpdateAt(in.thr, 0, grid, p, in.release, in.alpha,
                                 A1_MC_Star[p], A1_MR_Star[p], in.beta,
                                 Mat(CDesc(in), C[p].forced))
       IN  /\ C' = [C EXCEPT ![p].forced = res.buf]
           /\ pc' = [pc EXCEPT ![p] = EndPc(res)]
    /\ UNCHANGED <<in, A, ALw, A1_MC_Star, A1_MR_Star, driverVars>>

ThresholdNext ==
    \/ \E p \in Procs(grid) : AlwaysKernel(p)
    \/ \E p \in Procs(grid) : ForcedThreshold(p)

SpecThreshold == ThresholdInit /\ [][ThresholdNext]_vars

Ended(p) == pc[p] \in {"done", "overflow", "error"}

\* C4 as stated: with the threshold forced to 0 the update completes and
\* leaves the upper triangle the kernel alone leaves.
C4_Original ==
    \A p \in Procs(grid) :
        (Ended(p) /\ in.thr = 0) =>
            /\ pc[p] = "done"
            /\ UpperEq(p, C[p].forced, C[p].kernel)

\* C4, amended: the kernel alone always completes; with the threshold
\* forced to any value of at least 2 the recursive update completes too and
\* leaves the same values in the upper triangle of C; with the threshold
\* forced to 0 it never completes, and with 1 it completes only on an empty
\* C, because a block of height at most 1 is split into an empty block and
\* itself.
C4_ThresholdEquivalence ==
    \A p \in Procs(grid) :
        /\ pc[p] # "error"
        /\ Ended(p) =>
             /\ in.thr >= 2 =>
                  /\ pc[p] = "done"
                  /\ UpperEq(p, C[p].forced, C[p].kernel)
             /\ in.thr = 0 => pc[p] = "overflow"
             /\ in.thr = 1 => (pc[p] = "done" <=> in.m = 0)

\* Both runs done on a 2 x 2 grid with a 4 x 4 C split at threshold 2,
\* alpha = 3, beta = 4: the upper triangles agree, entry (0,3) has changed,
\* and the buffers differ below the diagonal.
C4_Witness ==
    /\ \A p \in Procs(grid) : pc[p] = "done"
    /\ in.shape = <<2, 2>> /\ in.m = 4 /\ in.k = MaxNb /\ in.thr = 2
    /\ in.alpha = Cx(3, 0) /\ in.beta = Cx(4, 0)
    /\ \A p \in Procs(grid) : UpperEq(p, C[p].forced, C[p].kernel)
    /\ \E p \in Procs(grid) :
         /\ Owns(grid, p, CDesc(in), 0, 3)
         /\ C[p].forced # LocalC(in, p)
         /\ C[p].forced # C[p].kernel

(***************************************************************************)
(* lp::affine::IPF, the infeasible path-following loop.  The control flow  *)
(* and the cone variables are modelled: s and z have one entry each, held  *)
(* as exact fractions <<numerator, denominator>>; x and y, which no test   *)
(* reads, are left out.  The relative error of an iterate and the two      *)
(* tolerances of the control structure are levels 0..MaxLevel, of which    *)
(* the code only reads the order.  The relative error found for an         *)
(* iterate, whether the KKT solve succeeds, the direction it returns and   *)
(* how far the line search backtracks are free outcomes of the arithmetic. *)
(***************************************************************************)
MaxIts == 1
MaxLevel == 2

Levels == 0..MaxLevel

IPFCtrl == [maxIts : 0..MaxIts, targetTol : Levels, minTol : Levels]

\* Exact fractions.
RECURSIVE GCD(_, _)
GCD(a, b) == IF b = 0 THEN a ELSE GCD(b, a % b)
Abs(n) == IF n < 0 THEN 0 - n ELSE n
Rat(n, d) == LET g == GCD(Abs(n), d) IN <<n \div g, d \div g>>
RZero == <<0, 1>>
ROne == <<1, 1>>
RNeg(a) == <<0 - a[1], a[2]>>
RMul(a, b) ==
    LET g1 == GCD(Abs(a[1]), b[2])
        g2 == GCD(Abs(b[1]), a[2])
    IN  Rat((a[1] \div g1) * (b[1] \div g2), (a[2] \div g2) * (b[2] \div g1))
RAdd(a, b) ==
    LET g == GCD(a[2], b[2])
    IN  Rat(a[1] * (b[2] \div g) + b[1] * (a[2] \div g), (a[2] \div g) * b[2])
RDiv(a, b) == RMul(a, <<b[2], b[1]>>)
RLeq(a, b) == a[1] * b[2] <= b[1] * a[2]
RMin(a, b) == IF RLeq(a, b) THEN a ELSE b
Positive(a) == a[1] > 0

\* The iterates IPF can start from (Initialize, or the caller's s and z when
\* ctrl.primalInit / ctrl.dualInit are set), the directions the solve can
\* return, as multiples of the current entry, and the fractions of its
\* upper bound the line search can return.
StartValues == {<<0, 1>>, <<1, 1>>, <<2, 1>>}
Directions == {0 - 2, 0 - 1, 1}
Backtracks == {<<0, 1>>, <<1, 2>>, <<1, 1>>}

\* Real relError = 1 ahead of the loop: the value is overwritten before it
\* is first read.  steps counts the nonzero steps applied, so it names the
\* current iterate; checked is the iterate whose relative error relError
\* is.
IPFInit ==
    /\ \E ctrl \in IPFCtrl : \E s0 \in StartValues : \E z0 \in StartValues :
         ipf = [ctrl |-> ctrl, numIts |-> 0, relError |-> MaxLevel,
                pc |-> "for", s |-> s0, z |-> z0, steps |-> 0,
                checked |-> 0 - 1]
    /\ in = Unused /\ main = Unused /\ dm = Unused /\ upd = Unused
    /\ pc = Unused /\ A = Unused /\ C = Unused /\ ALw = Unused
    /\ A1_MC_Star = Unused /\ A1_MR_Star = Unused /\ LibIdle

ipfFrame == <<in, kernelVars, main, dm, upd, libVars>>

\* A slip: the loop stops one iteration early.
ForTest_Strict ==
    /\ ipf.pc = "for"
    /\ ipf' = [ipf EXCEPT !.pc = IF ipf.numIts < ipf.ctrl.maxIts
                                 THEN "cone" ELSE "returned"]
    /\ UNCHANGED ipfFrame

\* for( Int numIts=0; numIts<=ctrl.maxIts; ++numIts ): the loop test; a run
\* that leaves the loop returns normally.
ForTest ==
    /\ ipf.pc = "for"
    /\ ipf' = [ipf EXCEPT !.pc = IF ipf.numIts <= ipf.ctrl.maxIts
                                 THEN "cone" ELSE "returned"]
    /\ UNCHANGED ipfFrame

\* NumNonPositive of a one-entry vector.
NumNonPositive(v) == IF Positive(v) THEN 0 ELSE 1

\* if( sNumNonPos > 0 || zNumNonPos > 0 ) LogicError(...)
ConeCheck == NumNonPositive(ipf.s) > 0 \/ NumNonPositive(ipf.z) > 0

\* The cone check and the computation of the relative error.
Converge ==
    /\ ipf.pc = "cone"
    /\ IF ConeCheck
       THEN ipf' = [ipf EXCEPT !.pc = "LogicError"]
       ELSE \E e \in Levels :
              ipf' = [ipf EXCEPT !.relError = e, !.checked = ipf.steps,
                                 !.pc = "test"]
    /\ UNCHANGED ipfFrame

\* The max-iterations test raising whenever the target is not met.
MaxItsTest_Unconditional ==
    /\ ipf.pc = "test"
    /\ ipf' = [ipf EXCEPT !.pc =
                 IF ipf.relError <= ipf.ctrl.targetTol THEN "returned"
                 ELSE IF ipf.numIts = ipf.ctrl.maxIts
                      THEN "MaxItsError" ELSE "solve"]
    /\ UNCHANGED ipfFrame

\* if( relError <= ctrl.targetTol ) break;
\* if( numIts == ctrl.maxIts && relError > ctrl.minTol ) RuntimeError(...)
MaxItsTest ==
    /\ ipf.pc = "test"
    /\ ipf' = [ipf EXCEPT !.pc =
                 IF ipf.relError <= ipf.ctrl.targetTol THEN "returned"
                 ELSE IF /\ ipf.numIts = ipf.ctrl.maxIts
                         /\ ipf.relError > ipf.ctrl.minTol
                      THEN "MaxItsError" ELSE "solve"]
    /\ UNCHANGED ipfFrame

\* A slip: the target tolerance decides.
GiveUp_Target == IF ipf.relError <= ipf.ctrl.targetTol THEN "returned" ELSE "TolError"

\* catch(...) of the solve and the test of a zero step: break when minTol
\* is met, RuntimeError otherwise.
GiveUp == IF ipf.relError <= ipf.ctrl.minTol THEN "returned" ELSE "TolError"

\* symm_solve::Overwrite inside try/catch.
Solve ==
    /\ ipf.pc = "solve"
    /\ \E solved \in BOOLEAN :
         ipf' = [ipf EXCEPT !.pc = IF solved THEN "step" ELSE GiveUp]
    /\ UNCHANGED ipfFrame

\* MaxStepInPositiveCone( s, ds, upperBound ): the largest alpha up to
\* upperBound with s + alpha ds >= 0.
MaxStepInPositiveCone(s, ds, upperBound) ==
    IF ds[1] < 0 THEN RMin(upperBound, RDiv(s, RNeg(ds))) ELSE upperBound

\* A slip: the line search may go all the way to the boundary of the cone.
StepBound_Boundary(alphaMax) == alphaMax

\* Real(0.99)*alphaMax, the upper bound handed to the line search.
StepBound(alphaMax) == RMul(<<99, 100>>, alphaMax)

\* IPFLineSearch: backtracks from its upper bound; t is the fraction left.
IPFLineSearch(upperBound, t) == RMul(t, upperBound)

\* The step length for directions ds, dz when the line search keeps the
\* fraction t of its upper bound.
StepLength(ds, dz, t) ==
    LET alphaPrimal == MaxStepInPositiveCone(ipf.s, ds, ROne)
        alphaDual   == MaxStepInPositiveCone(ipf.z, dz, ROne)
        alphaMax    == RMin(alphaPrimal, alphaDual)
    IN  IPFLineSearch(StepBound(alphaMax), t)

\* The line search, Axpy( alpha, ds, s ), Axpy( alpha, dz, z ) and the test
\* of a zero step; a nonzero step ends the iteration and ++numIts runs.
Step ==
    /\ ipf.pc = "step"
    /\ \E cs \in Directions : \E cz \in Directions : \E t \in Backtracks :
         LET ds    == RMul(<<cs, 1>>, ipf.s)
             dz    == RMul(<<cz, 1>>, ipf.z)
             alpha == StepLength(ds, dz, t)
             s1    == RAdd(RMul(alpha, ds), ipf.s)
             z1    == RAdd(RMul(alpha, dz), ipf.z)
         IN  ipf' = IF alpha = RZero
                    THEN [ipf EXCEPT !.s = s1, !.z = z1, !.pc = GiveUp]
                    ELSE [ipf EXCEPT !.s = s1, !.z = z1,
                                     !.steps = ipf.steps + 1,
                                     !.numIts = ipf.numIts + 1, !.pc = "for"]
    /\ UNCHANGED ipfFrame

IPFNext ==
    \/ ForTest
    \/ Converge
    \/ MaxItsTest
    \/ Solve
    \/ Step

SpecIPF == IPFInit /\ [][IPFNext]_vars

\* The run met the target tolerance.
MetTarget == ipf.relError <= ipf.ctrl.targetTol

\* The run has reached the tests of iteration numIts == maxIts and gone
\* past them, or left the loop.
PastMaxIts ==
    \/ ipf.numIts > ipf.ctrl.maxIts
    \/ ipf.numIts = ipf.ctrl.maxIts
         /\ ipf.pc \in {"solve", "step", "returned", "MaxItsError", "TolError"}

\* C13 as stated: a run that reaches iteration numIts == maxIts without
\* having met the target tolerance raises an error and does not return
\* normally.
C13_Original ==
    (PastMaxIts /\ ~MetTarget) =>
        ipf.pc \in {"MaxItsError", "TolError"}

\* C13, amended: a run that reaches iteration numIts == maxIts with a
\* relative error above both targetTol and minTol raises the
\* max-iterations error there; one whose error is above targetTol but
\* within minTol is not stopped by that test, and returns normally or
\* continues the iteration; the max-iterations error is raised in no other
\* case, and the loop body never runs with numIts above maxIts.
C13_MaxItsFatal ==
    /\ (PastMaxIts /\ ~MetTarget /\ ipf.relError > ipf.ctrl.minTol) =>
           ipf.pc \in {"MaxItsError", "TolError"}
    /\ (PastMaxIts /\ ~MetTarget /\ ipf.relError <= ipf.ctrl.minTol) =>
           ipf.pc \in {"solve", "step", "for", "returned"}
    /\ ipf.pc = "MaxItsError" =>
           /\ ipf.numIts = ipf.ctrl.maxIts
           /\ ~MetTarget /\ ipf.relError > ipf.ctrl.minTol
    /\ ipf.numIts <= ipf.ctrl.maxIts + 1
    /\ ipf.numIts > ipf.ctrl.maxIts => ipf.pc \in {"for", "returned"}

\* The second of two iterations ends with the error above both tolerances:
\* the max-iterations error is raised.
C13_Witness ==
    /\ ipf.pc = "MaxItsError"
    /\ ipf.ctrl.maxIts = 1 /\ ipf.numIts = 1
    /\ ipf.ctrl.targetTol = 0 /\ ipf.ctrl.minTol = 1 /\ ipf.relError = 2

\* Both cone variables of the current iterate are strictly positive.
InCone == Positive(ipf.s) /\ Positive(ipf.z)

\* C22: Cone safety in IPF: at the start of every iteration an iterate with
\* an entry of s or z <= 0 raises LogicError before anything else is
\* computed (the relative error and the iterate are untouched); the
\* convergence test, the solve and the step only ever run from an iterate
\* with s > 0 and z > 0; and s and z only change in the step, which leads
\* from an iterate inside the strictly positive cone to one inside it.
C22_ConeSafety ==
    [][ /\ (ipf.pc = "cone" /\ ~InCone) =>
              ipf' = [ipf EXCEPT !.pc = "LogicError"]
        /\ ipf.pc \in {"test", "solve", "step"} => InCone
        /\ (ipf'.s # ipf.s \/ ipf'.z # ipf.z \/ ipf'.steps # ipf.steps) =>
              /\ ipf.pc = "step"
              /\ InCone
              /\ Positive(ipf'.s) /\ Positive(ipf'.z) ]_vars

\* The second iteration tests an iterate that a full line-search step
\* (alpha = 0.99) has brought to a hundredth of its distance to the
\* boundary.
C22_Witness ==
    /\ ipf.pc = "test"
    /\ ipf.steps = 1
    /\ ipf.s = <<1, 100>>
    /\ InCone

\* The loop ended because numIts passed maxIts, after a nonzero step in the
\* iteration numIts = maxIts.
RanOut == ipf.numIts = ipf.ctrl.maxIts + 1

\* C23 as stated: given targetTol <= minTol, whenever IPF returns normally
\* the iterate it returns is the one whose relative error was last computed
\* and found <= minTol: no step follows the last convergence check.
C23_Original ==
    (ipf.pc = "returned" /\ ipf.ctrl.targetTol <= ipf.ctrl.minTol) =>
        /\ ipf.checked = ipf.steps
        /\ ipf.relError <= ipf.ctrl.minTol

\* C23: given targetTol <= minTol (and maxIts >= 0), whenever IPF returns
\* normally the last relative error computed was found <= minTol; the
\* iterate returned is the one that was checked, except when the loop ran
\* out of iterations: then exactly one step was applied after the last
\* convergence check, and the iterate returned was never checked.
C23_ReturnedChecked ==
    (ipf.pc = "returned" /\ ipf.ctrl.targetTol <= ipf.ctrl.minTol) =>
        /\ ipf.relError <= ipf.ctrl.minTol
        /\ ipf.checked >= 0
        /\ IF RanOut
           THEN ipf.steps = ipf.checked + 1 /\ ~MetTarget
           ELSE ipf.steps = ipf.checked

\* IPF returns an iterate stepped after its last check: in the iteration
\* numIts = maxIts the error was between the tolerances and a nonzero step
\* was taken.
C23_Witness ==
    /\ ipf.pc = "returned"
    /\ ipf.ctrl.targetTol <= ipf.ctrl.minTol
    /\ RanOut
    /\ ipf.steps = ipf.checked + 1
    /\ ipf.ctrl.targetTol < ipf.relError /\ ipf.relError <= ipf.ctrl.minTol

\* C24: Numerical-failure handling in IPF: when the KKT solve throws, no
\* step is applied in that iteration and IPF returns normally iff the
\* relative error just computed is <= minTol, otherwise it raises the
\* RuntimeError 'Could not achieve minimum tolerance'; the same rule follows
\* a line search that returns alpha == 0, whose zero step leaves the
\* iterate unchanged.  In both cases the error tested is that of the
\* current iterate.
C24_NumericalFailure ==
    [][ ((ipf.pc = "solve" /\ ipf'.pc # "step") \/
         (ipf.pc = "step" /\ ipf'.pc # "for")) =>
           /\ ipf'.pc = (IF ipf.relError <= ipf.ctrl.minTol
                         THEN "returned" ELSE "TolError")
           /\ ipf' = [ipf EXCEPT !.pc = ipf'.pc]
           /\ ipf.checked = ipf.steps ]_vars

\* After one nonzero step, the second iteration finds the error between
\* the tolerances and then fails (the solve throws or the line search
\* returns alpha == 0): IPF returns the iterate the first step produced.
C24_Witness ==
    /\ ipf.pc = "returned"
    /\ ipf.steps = 1 /\ ipf.checked = 1 /\ ipf.numIts = 1
    /\ ipf.ctrl.targetTol < ipf.relError /\ ipf.relError <= ipf.ctrl.minTol
    /\ ipf.s = <<1, 100>>

(***************************************************************************)
(* One call of HerkUNUpdate on one process, statement by statement.  The   *)
(* call works on the process's local buffers only, so one process is       *)
(* followed: in.p.  upd.stack holds the work still to do, innermost first: *)
(* a frame is a call of HerkUNUpdate ("call"), the Gemm on CTR of a split  *)
(* ("gemm") or a running HerkUNUpdateKernel ("kernel", at the statement    *)
(* named by its field at).  The code takes the three pieces of a split in  *)
(* the order CTR, CTL, CBR; the order is the input in.order, so that the   *)
(* other five orders can be compared with it.  upd.log records every       *)
(* statement run: the call it belongs to (tag: the path of quadrants from  *)
(* the root, ending in "TR" for the Gemm of a split), the positions of C's *)
(* buffer it reads and writes, and the positions whose entry of A A^H it   *)
(* computes.                                                               *)
(***************************************************************************)
CodeOrder == <<"TR", "TL", "BR">>

Orders ==
    { o \in [1 .. 3 -> {"TR", "TL", "BR"}] : {o[n] : n \in 1 .. 3} = {"TR", "TL", "BR"} }

UpdateInputs ==
    { [Input(sh, ca, ra, TRUE, FALSE, nb, m, nb, m, m, cs) EXCEPT !.cSeed = 0]
        @@ [p |-> p, order |-> o] :
      sh \in GridShapes, ca \in 0 .. 1, ra \in 0 .. 1,
      m \in 0 .. MaxM, nb \in 1 .. MaxNb, p \in 0 .. 3, o \in Orders,
      cs \in {c \in Cases : c.alpha # CZero /\ c.beta # CZero} }

Frame(kind, tag, AMC, AMR, CV, at) ==
    [kind |-> kind, tag |-> tag, AMC |-> AMC, AMR |-> AMR, C |-> CV, at |-> at]

Rec(op, tag, reads, writes, prod, h) ==
    [op |-> op, tag |-> tag, reads |-> reads, writes |-> writes,
     prod |-> prod, h |-> h]

UpdateInit ==
    /\ \E x \in UpdateInputs :
         /\ x.cColAlign < x.shape[1] /\ x.cRowAlign < x.shape[2]
         /\ x.p \in Procs(GridOf(x))
         /\ in = x
         /\ LET LA  == [q \in Procs(GridOf(x)) |-> LocalA(x, q)]
                AMC == [q \in Procs(GridOf(x)) |-> ToMCStar(x, LA, 0, q)]
            IN  upd = [stack |-> <<Frame("call", <<>>, MCDesc(x, 0), MRDesc(x, 0),
                                         CDesc(x), "")>>,
                       buf |-> LocalC(x, x.p),
                       A_MC_Star |-> AMC[x.p].buf,
                       A_MR_Star |-> ToMRStar(x, AMC, 0, x.p).buf,
                       D |-> NoMat, log |-> <<>>, status |-> "ok"]
    /\ pc = Unused /\ A = Unused /\ C = Unused /\ ALw = Unused
    /\ A1_MC_Star = Unused /\ A1_MR_Star = Unused
    /\ main = Unused /\ dm = Unused /\ ipf = Unused /\ LibIdle

updFrame == <<in, kernelVars, main, dm, ipf, libVars>>

Running == upd.status = "ok" /\ upd.stack # <<>>
Top == Head(upd.stack)

\* The positions of C's buffer that the block V occupies.
Cells(V) == {x \in DOMAIN upd.buf : InBlock(grid, in.p, V, x)}

\* LockedPartitionDown twice and PartitionDownDiagonal at half = C.Height()/2,
\* as HerkUNUpdate and its kernel both do.
Parts(f) ==
    LET half == f.C.height \div 2
        AMC  == LockedPartitionDown(grid, in.p, f.AMC, half)
        AMR  == LockedPartitionDown(grid, in.p, f.AMR, half)
    IN  [half |-> half,
         AT_MC_Star |-> Mat(AMC.T, upd.A_MC_Star),
         AB_MC_Star |-> Mat(AMC.B, upd.A_MC_Star),
         AT_MR_Star |-> Mat(AMR.T, upd.A_MR_Star),
         AB_MR_Star |-> Mat(AMR.B, upd.A_MR_Star),
         C |-> PartitionDownDiagonal(grid, in.p, f.C, half)]

\* The piece of work on quadrant q of a split of f: the Gemm on CTR, or the
\* call on CTL or CBR.
Piece(f, q) ==
    LET P == Parts(f)
    IN  CASE q = "TR" -> Frame("gemm", Append(f.tag, q), P.AT_MC_Star.V,
                               P.AB_MR_Star.V, P.C.TR, "")
          [] q = "TL" -> Frame("call", Append(f.tag, q), P.AT_MC_Star.V,
                               P.AT_MR_Star.V, P.C.TL, "")
          [] q = "BR" -> Frame("call", Append(f.tag, q), P.AB_MC_Star.V,
                               P.AB_MR_Star.V, P.C.BR, "")

\* The three pieces of work of a split, in the order in.order.
SplitFrames(f) == [n \in 1 .. 3 |-> Piece(f, in.order[n])]

\* Entry of HerkUNUpdate: the debug checks and the test
\* C.Height() < 2*grid.Width()*Blocksize().
Call ==
    /\ Running /\ Top.kind = "call"
    /\ LET f == Top
           chk == IF in.release THEN "ok"
                  ELSE UpdateCheck(Mat(f.AMC, upd.A_MC_Star),
                                   Mat(f.AMR, upd.A_MR_Star), Mat(f.C, upd.buf))
       IN  IF chk # "ok" THEN upd' = [upd EXCEPT !.status = chk]
           ELSE IF f.C.height < Threshold(grid, in.nb)
           THEN upd' = [upd EXCEPT
                          !.stack = <<[f EXCEPT !.kind = "kernel", !.at = "Scal"]>>
                                    \o Tail(upd.stack),
                          !.log = Append(@, Rec("Kernel", f.tag, {}, {}, {},
                                                f.C.height))]
           ELSE upd' = [upd EXCEPT
                          !.stack = SplitFrames(f) \o Tail(upd.stack),
                          !.log = Append(@, Rec("Split", f.tag, {}, {}, {},
                                                f.C.height))]
    /\ UNCHANGED updFrame

\* A slip: the Gemm on CTR is issued twice.
GemmCTR_Twice(f) ==
    LET once == Gemm(grid, in.p, in.alpha, Mat(f.AMC, upd.A_MC_Star),
                     Mat(f.AMR, upd.A_MR_Star), in.beta, Mat(f.C, upd.buf))
        r == Rec("Gemm", f.tag, IF in.beta = CZero THEN {} ELSE Cells(f.C),
                 Cells(f.C), Cells(f.C), f.C.height)
    IN  [buf |-> Gemm(grid, in.p, in.alpha, Mat(f.AMC, upd.A_MC_Star),
                      Mat(f.AMR, upd.A_MR_Star), in.beta, Mat(f.C, once)),
         log |-> <<r, r>>]

\* A slip: the Gemm on CTR of a split accumulates with (T)1, as the
\* kernel's does.
GemmCTR_UnitBeta(f) ==
    [buf |-> Gemm(grid, in.p, in.alpha, Mat(f.AMC, upd.A_MC_Star),
                  Mat(f.AMR, upd.A_MR_Star), COne, Mat(f.C, upd.buf)),
     log |-> <<Rec("Gemm", f.tag, Cells(f.C), Cells(f.C), Cells(f.C), f.C.height)>>]

\* BLAS::Gemm( Normal, ConjugateTranspose, alpha, AT_MC_Star, AB_MR_Star,
\*             beta, CTR ) of a split.
GemmCTR(f) ==
    [buf |-> Gemm(grid, in.p, in.alpha, Mat(f.AMC, upd.A_MC_Star),
                  Mat(f.AMR, upd.A_MR_Star), in.beta, Mat(f.C, upd.buf)),
     log |-> <<Rec("Gemm", f.tag, IF in.beta = CZero THEN {} ELSE Cells(f.C),
                   Cells(f.C), Cells(f.C), f.C.height)>>]

SplitGemm ==
    /\ Running /\ Top.kind = "gemm"
    /\ upd' = [upd EXCEPT !.stack = Tail(upd.stack),
                          !.buf = GemmCTR(Top).buf,
                          !.log = @ \o GemmCTR(Top).log]
    /\ UNCHANGED updFrame

\* A slip: the kernel scales the whole local buffer of C.
ScalBlock_WholeBuffer(f) ==
    [buf |-> [x \in DOMAIN upd.buf |-> CMul(in.beta, upd.buf[x])],
     cells |-> DOMAIN upd.buf]

\* BLAS::Scal( beta, C ) of the kernel.
ScalBlock(f) ==
    [buf |-> Scal(grid, in.p, in.beta, Mat(f.C, upd.buf)), cells |-> Cells(f.C)]

\* The kernel up to its first Gemm: the debug checks, Scal, the three
\* partitions, and DTL and DBR aligned and resized.
KernelScal ==
    /\ Running /\ Top.kind = "kernel" /\ Top.at = "Scal"
    /\ upd' = IF ~in.release /\ UpdateCheck(Mat(Top.AMC, upd.A_MC_Star),
                                            Mat(Top.AMR, upd.A_MR_Star),
                                            Mat(Top.C, upd.buf)) # "ok"
              THEN [upd EXCEPT !.status = "error"]
              ELSE
              [upd EXCEPT
                 !.stack = <<[Top EXCEPT !.at = "GemmTR"]>> \o Tail(upd.stack),
                 !.buf = ScalBlock(Top).buf,
                 !.log = @ \o <<Rec("Scal", Top.tag, ScalBlock(Top).cells,
                                    ScalBlock(Top).cells, {}, Top.C.height),
                                Rec("PartitionDownDiagonal", Top.tag, {}, {}, {},
                                    Top.C.height)>>]
    /\ UNCHANGED updFrame

\* BLAS::Gemm( ..., alpha, AT_MC_Star, AB_MR_Star, (T)1, CTR ) of the kernel.
KernelGemmTR ==
    /\ Running /\ Top.kind = "kernel" /\ Top.at = "GemmTR"
    /\ LET P == Parts(Top)
       IN  upd' = [upd EXCEPT
                     !.stack = <<[Top EXCEPT !.at = "GemmTL"]>> \o Tail(upd.stack),
                     !.buf = Gemm(grid, in.p, in.alpha, P.AT_MC_Star, P.AB_MR_Star,
                                  COne, Mat(P.C.TR, upd.buf)),
                     !.log = Append(@, Rec("Gemm", Top.tag, Cells(P.C.TR),
                                           Cells(P.C.TR), Cells(P.C.TR),
                                           P.C.TR.height))]
    /\ UNCHANGED updFrame

\* BLAS::Gemm( ..., alpha, AT_MC_Star, AT_MR_Star, (T)0, DTL ), and the same
\* with AB_MC_Star, AB_MR_Star and DBR.
KernelGemmD(q) ==
    /\ Running /\ Top.kind = "kernel" /\ Top.at = "Gemm" \o q
    /\ LET P  == Parts(Top)
           X  == IF q = "TL" THEN P.AT_MC_Star ELSE P.AB_MC_Star
           Y  == IF q = "TL" THEN P.AT_MR_Star ELSE P.AB_MR_Star
           D0 == AlignedLike(grid, in.p, P.C[q])
       IN  upd' = [upd EXCEPT
                     !.stack = <<[Top EXCEPT !.at = "Axpy" \o q]>> \o Tail(upd.stack),
                     !.D = Mat(D0.V, Gemm(grid, in.p, in.alpha, X, Y, CZero, D0)),
                     !.log = Append(@, Rec("Gemm", Top.tag, {}, {}, Cells(P.C[q]),
                                           P.C[q].height))]
    /\ UNCHANGED updFrame

\* A slip: the product is added without being masked.
MaskedAxpy_Unmasked(D, CV) == Axpy(grid, in.p, COne, D, Mat(CV, upd.buf))

\* D.MakeTrapezoidal( Left, Upper ); BLAS::Axpy( (T)1, D, CTL or CBR )
MaskedAxpy(D, CV) ==
    Axpy(grid, in.p, COne, Mat(D.V, MakeTrapezoidal(grid, in.p, D)),
         Mat(CV, upd.buf))

\* The mask and the Axpy of DTL into CTL, and of DBR into CBR, which ends
\* the kernel.
KernelAxpy(q) ==
    /\ Running /\ Top.kind = "kernel" /\ Top.at = "Axpy" \o q
    /\ LET P == Parts(Top)
       IN  upd' = [upd EXCEPT
                     !.stack = IF q = "TL"
                               THEN <<[Top EXCEPT !.at = "GemmBR"]>> \o Tail(upd.stack)
                               ELSE Tail(upd.stack),
                     !.buf = MaskedAxpy(upd.D, P.C[q]),
                     !.D = NoMat,
                     !.log = Append(@, Rec("Axpy", Top.tag, Cells(P.C[q]),
                                           Cells(P.C[q]), {}, P.C[q].height))]
    /\ UNCHANGED updFrame

UpdateNext ==
    \/ Call
    \/ SplitGemm
    \/ KernelScal
    \/ KernelGemmTR
    \/ \E q \in {"TL", "BR"} : KernelGemmD(q)
    \/ \E q \in {"TL", "BR"} : KernelAxpy(q)

SpecUpdate == UpdateInit /\ [][UpdateNext]_vars

\* The call has returned.
Returns == upd.status = "ok" /\ upd.stack = <<>>

\* The result of the same call computed by HerkUNUpdate as one function, in
\* the code's order.
Direct ==
    HerkUNUpdate(grid, in.p, in.nb, in.release, in.alpha,
                 Mat(MCDesc(in, 0), upd.A_MC_Star),
                 Mat(MRDesc(in, 0), upd.A_MR_Star), in.beta,
                 Mat(CDesc(in), LocalC(in, in.p)))

StepwiseAgrees == Returns => (Direct.status = "ok" /\ upd.buf = Direct.buf)

\* The frame of the outermost call, and the statements logged so far.
RootFrame == Frame("call", <<>>, MCDesc(in, 0), MRDesc(in, 0), CDesc(in), "")
LogOf(op) == {n \in 1 .. Len(upd.log) : upd.log[n].op = op}
BaseCase == in.m < Threshold(grid, in.nb)

\* beta*C0 plus, on and above the diagonal, alpha * (A A^H), at position y
\* of the root's local buffer.
MaskedUpdate(y) ==
    LET i == GlobalRow(grid, in.p, CDesc(in), y[1])
        j == GlobalCol(grid, in.p, CDesc(in), y[2])
    IN  CAdd(CMul(in.beta, CFill(in.cSeed, i, j)),
             IF i <= j THEN CMul(in.alpha, RefDot(in, i, j, in.k)) ELSE CZero)

\* C16 as stated: below the threshold the update returns after a single
\* multiply that computes the whole m x m product, with C never partitioned.
C16_Original ==
    (Returns /\ BaseCase) =>
        /\ Cardinality(LogOf("Gemm")) = 1
        /\ \A n \in LogOf("Gemm") : upd.log[n].prod = DOMAIN upd.buf
        /\ LogOf("PartitionDownDiagonal") = {}

\* C16, amended: below the threshold the update calls the kernel and never
\* recurses; the kernel scales C by beta, partitions it once at
\* half = m div 2 and runs three multiplies, on CTR, CTL and CBR, so that no
\* entry of the product in CBL is ever computed; when it returns, every
\* stored entry of C is beta*C0 plus, on and above the diagonal only, the
\* entry of alpha*A*A^H.
C16_BaseCaseKernel ==
    BaseCase =>
        /\ LogOf("Split") = {}
        /\ Returns =>
             /\ \A y \in DOMAIN upd.buf : upd.buf[y] = MaskedUpdate(y)
             /\ Cardinality(LogOf("Kernel")) = 1
             /\ Cardinality(LogOf("PartitionDownDiagonal")) = 1
             /\ Cardinality(LogOf("Gemm")) = 3
             /\ LET CP == Parts(RootFrame).C
                IN  /\ CP.TL.height = in.m \div 2
                    /\ <<Cells(CP.TR), Cells(CP.TL), Cells(CP.BR)>> =
                         <<upd.log[4].prod, upd.log[5].prod, upd.log[7].prod>>
                    /\ \A n \in LogOf("Gemm") :
                         upd.log[n].prod \cap Cells(CP.BL) = {}

\* The kernel has returned on a 3 x 3 C held by a single process (3 < 2*1*2):
\* three multiplies were run, entry (2,0) of the product was never computed,
\* entry (2,1) of C is beta*C0 and entry (1,2) is not.
C16_Witness ==
    /\ Returns /\ BaseCase
    /\ in.shape = <<1, 1>> /\ in.m = 3 /\ in.nb = 2
    /\ Cardinality(LogOf("Gemm")) = 3
    /\ \A n \in LogOf("Gemm") : <<2, 0>> \notin upd.log[n].prod
    /\ upd.buf[<<2, 1>>] = CMul(in.beta, CFill(in.cSeed, 2, 1))
    /\ upd.buf[<<1, 2>>] = MaskedUpdate(<<1, 2>>)
    /\ upd.buf[<<1, 2>>] # CMul(in.beta, CFill(in.cSeed, 1, 2))
    /\ CMul(in.alpha, RefDot(in, 2, 1, in.k)) # CZero

\* The frame of the call reached from the outermost call along the path
\* tag.
RECURSIVE FrameAt(_)
FrameAt(tag) ==
    IF tag = <<>> THEN RootFrame
    ELSE Piece(FrameAt(SubSeq(tag, 1, Len(tag) - 1)), tag[Len(tag)])

\* The statements logged so far that write, or read, position y of C.
Writers(y) == {n \in 1 .. Len(upd.log) : y \in upd.log[n].writes}
Readers(y) == {n \in 1 .. Len(upd.log) : y \in upd.log[n].reads}
Tagged(op, tag) == {n \in LogOf(op) : upd.log[n].tag = tag}

\* What one split, logged as record s, has done so far.  Its quadrants have
\* the shapes half x half, half x (h - half), (h - half) x half and
\* (h - half) x (h - half); no statement has read or written CBL; each
\* entry of CTR has been written at most once, and once the Gemm of the
\* split has run, exactly once, by that Gemm, and holds
\* beta*C0 + alpha*(A A^H); when the call has returned the Gemm and both
\* recursive calls have run, once each.
SplitDone(s) ==
    LET f    == FrameAt(s.tag)
        CP   == Parts(f).C
        half == s.h \div 2
        TR   == Append(s.tag, "TR")
        ran  == Tagged("Gemm", TR) # {}
    IN  /\ f.C.height = s.h /\ f.C.width = s.h
        /\ <<CP.TL.height, CP.TL.width>> = <<half, half>>
        /\ <<CP.TR.height, CP.TR.width>> = <<half, s.h - half>>
        /\ <<CP.BL.height, CP.BL.width>> = <<s.h - half, half>>
        /\ <<CP.BR.height, CP.BR.width>> = <<s.h - half, s.h - half>>
        /\ \A y \in Cells(CP.BL) : Writers(y) = {} /\ Readers(y) = {}
        /\ \A y \in Cells(CP.TR) :
              /\ Writers(y) = Tagged("Gemm", TR) /\ Readers(y) = Writers(y)
              /\ Cardinality(Writers(y)) = IF ran THEN 1 ELSE 0
              /\ upd.buf[y] = IF ran THEN MaskedUpdate(y)
                              ELSE CFill(in.cSeed, GlobalRow(grid, in.p, CDesc(in), y[1]),
                                         GlobalCol(grid, in.p, CDesc(in), y[2]))
        /\ Returns =>
              /\ Cardinality(Tagged("Gemm", TR)) = 1
              /\ \A q \in {"TL", "BR"} :
                    Cardinality(Tagged("Split", Append(s.tag, q))
                                \cup Tagged("Kernel", Append(s.tag, q))) = 1

\* C17: a call of HerkUNUpdate subdivides exactly when the height of its C
\* is at least 2*grid.Width()*Blocksize(); it then splits at
\* half = height div 2, updates every entry of CTR exactly once, by one
\* Gemm alpha*A_top*A_bottom^H + beta*CTR, calls itself on CTL and on CBR,
\* and no statement reads or writes an entry of CBL.
C17_RecursiveCase ==
    /\ \A n \in LogOf("Split") :
          upd.log[n].h >= Threshold(grid, in.nb) /\ SplitDone(upd.log[n])
    /\ \A n \in LogOf("Kernel") : upd.log[n].h < Threshold(grid, in.nb)
    /\ upd.status = "ok"

\* A returned call on a 4 x 4 C held by one process with nb = 1 (threshold
\* 2): the outermost call split at 2 and so did both calls it made; entry
\* (0,3), in CTR, was written once and changed, entry (3,0), in CBL, is as
\* it was.
C17_Witness ==
    /\ Returns /\ in.shape = <<1, 1>> /\ in.m = 4 /\ in.nb = 1
    /\ in.order = CodeOrder
    /\ Cardinality(LogOf("Split")) = 3 /\ Cardinality(LogOf("Kernel")) = 4
    /\ Cardinality(Writers(<<0, 3>>)) = 1
    /\ upd.buf[<<0, 3>>] = MaskedUpdate(<<0, 3>>)
    /\ upd.buf[<<0, 3>>] # CMul(in.beta, CFill(in.cSeed, 0, 3))
    /\ Writers(<<3, 0>>) = {} /\ upd.buf[<<3, 0>>] = CFill(in.cSeed, 3, 0)
    /\ upd.buf[<<3, 0>>] # CMul(in.beta, CFill(in.cSeed, 3, 0))

\* The positions of C written, and read or written, by the statements of
\* the piece of work with path t and of everything called from it.
IsPrefix(t, tag) == Len(t) <= Len(tag) /\ SubSeq(tag, 1, Len(t)) = t
Written(t) ==
    UNION {upd.log[n].writes : n \in {k \in 1 .. Len(upd.log) : IsPrefix(t, upd.log[k].tag)}}
Touched(t) ==
    UNION {upd.log[n].reads \cup upd.log[n].writes :
           n \in {k \in 1 .. Len(upd.log) : IsPrefix(t, upd.log[k].tag)}}

\* C18: at every split, the entries written by the Gemm on CTR, by the call
\* on CTL and by the call on CBR (with everything they call) are pairwise
\* disjoint, and none of the three reads an entry another writes; and in
\* whichever of the six orders the three pieces are taken, at every level,
\* the call returns the C that the code's order returns.
C18_DiagonalIndependence ==
    /\ \A n \in LogOf("Split") :
         \A q1, q2 \in {"TR", "TL", "BR"} :
           q1 # q2 => Touched(Append(upd.log[n].tag, q1))
                        \cap Written(Append(upd.log[n].tag, q2)) = {}
    /\ Returns => Direct.status = "ok" /\ upd.buf = Direct.buf

\* A returned call on a 4 x 4 C held by one process, nb = 1, that took CBR
\* first, then CTL, then CTR at each of its three splits: all three pieces
\* of the outermost split wrote entries, and C is what the code's order
\* gives.
C18_Witness ==
    /\ Returns /\ in.shape = <<1, 1>> /\ in.m = 4 /\ in.nb = 1
    /\ in.order = <<"BR", "TL", "TR">>
    /\ Cardinality(LogOf("Split")) = 3
    /\ upd.log[2].tag = <<"BR">>
    /\ upd.log[Len(upd.log)].tag = <<"TR">> /\ upd.log[Len(upd.log)].op = "Gemm"
    /\ \A q \in {"TR", "TL", "BR"} : Written(<<q>>) # {}
    /\ upd.buf = Direct.buf /\ upd.buf # LocalC(in, in.p)

\* The statements logged so far that multiply position y of C by beta: the
\* Scal of a kernel and the Gemm on CTR of a split (the Gemm on CTR of a
\* kernel, whose tag is the path of its call, accumulates with (T)1).
BetaScalers(y) ==
    {n \in Writers(y) :
        \/ upd.log[n].op = "Scal"
        \/ /\ upd.log[n].op = "Gemm" /\ upd.log[n].tag # <<>>
           /\ upd.log[n].tag[Len(upd.log[n].tag)] = "TR"}

\* alpha * (A A^H) plus C0 multiplied n times by beta, at position y.
ScaledTimes(y, n) ==
    LET i  == GlobalRow(grid, in.p, CDesc(in), y[1])
        j  == GlobalCol(grid, in.p, CDesc(in), y[2])
        c0 == CFill(in.cSeed, i, j)
        bc == CASE n = 0 -> c0
                [] n = 1 -> CMul(in.beta, c0)
                [] n = 2 -> CMul(in.beta, CMul(in.beta, c0))
    IN  CAdd(bc, CMul(in.alpha, RefDot(in, i, j, in.k)))

UpperCells ==
    {y \in DOMAIN upd.buf :
        GlobalRow(grid, in.p, CDesc(in), y[1]) <= GlobalCol(grid, in.p, CDesc(in), y[2])}

\* C21: during a call of HerkUNUpdate no entry of C on or above the
\* diagonal is multiplied by beta by more than one statement, and when the
\* call has returned every such entry has been multiplied by exactly one,
\* the Gemm on CTR of the split that holds it or the Scal of the kernel that
\* holds it, and equals beta*C0 + alpha*(A A^H).
C21_BetaExactlyOnce ==
    \A y \in UpperCells :
        /\ Cardinality(BetaScalers(y)) <= 1
        /\ Returns =>
             /\ Cardinality(BetaScalers(y)) = 1
             /\ upd.buf[y] = ScaledTimes(y, 1)

\* A returned call on a 4 x 4 C held by one process with nb = 1 and
\* beta = 4: entry (0,3) was scaled by the Gemm of the outermost split,
\* entry (0,1) by the Gemm of the split of CTL, entry (0,0) by the Scal of a
\* kernel; each holds its value with beta applied once, which differs from
\* the values with beta applied twice and not at all.
C21_Witness ==
    /\ Returns /\ in.shape = <<1, 1>> /\ in.m = 4 /\ in.nb = 1
    /\ in.beta = Cx(4, 0) /\ in.order = CodeOrder
    /\ \E n \in BetaScalers(<<0, 3>>) : upd.log[n].tag = <<"TR">>
    /\ \E n \in BetaScalers(<<0, 1>>) : upd.log[n].tag = <<"TL", "TR">>
    /\ \E n \in BetaScalers(<<0, 0>>) :
         upd.log[n].op = "Scal" /\ upd.log[n].tag = <<"TL", "TL">>
    /\ \A y \in {<<0, 3>>, <<0, 1>>, <<0, 0>>} :
         /\ upd.buf[y] = ScaledTimes(y, 1)
         /\ upd.buf[y] # ScaledTimes(y, 0) /\ upd.buf[y] # ScaledTimes(y, 2)

(***************************************************************************)
(* The distributed lp::affine::IPF (the AbstractDistMatrix and the         *)
(* DistSparseMatrix overloads), one loop per process.  dipf.proc[r] is     *)
(* rank r's position, its copies of numIts and relError, the collective    *)
(* operations it has called (ops), how many groups of them it has been     *)
(* through (at) and how many times it has called Output (outs).  A group   *)
(* of collectives cannot complete on a process before every process has    *)
(* reached it, so a rank runs its next group only when no running rank is  *)
(* behind it.  The value a reduction returns is the same on every rank:    *)
(* dipf.glob[it] holds, for iteration it - 1, the values already returned  *)
(* to some rank (a set: empty while no rank has asked).                    *)
(***************************************************************************)
MaxRanks == 2

Ranks == 0 .. MaxRanks - 1
Overloads == {"DistMatrix", "DistSparseMatrix"}
DistCtrl == [maxIts : 0 .. MaxIts, targetTol : {0}, minTol : {0, 1},
             print : BOOLEAN]
Undecided == [cone |-> {}, relError |-> {}, wMaxNorm |-> {},
              solve |-> {}, alpha |-> {}]

DIPFInit ==
    /\ \E ctrl \in DistCtrl : \E kind \in Overloads : \E n \in 1 .. MaxRanks :
         dipf = [ctrl |-> ctrl, kind |-> kind,
                 proc |-> [r \in 0 .. n - 1 |->
                             [pc |-> "for", numIts |-> 0, relError |-> MaxLevel,
                              ops |-> <<>>, at |-> 0, outs |-> 0]],
                 glob |-> [it \in 1 .. ctrl.maxIts + 1 |-> Undecided]]
    /\ in = Unused /\ main = Unused /\ dm = Unused /\ upd = Unused
    /\ pc = Unused /\ A = Unused /\ C = Unused /\ ALw = Unused
    /\ A1_MC_Star = Unused /\ A1_MR_Star = Unused /\ ipf = Unused
    /\ trr = Unused /\ pcf = Unused /\ capi = Unused

dipfFrame == <<in, kernelVars, main, dm, upd, ipf, trr, pcf, capi>>

Left(r) ==
    dipf.proc[r].pc \in {"returned", "LogicError", "MaxItsError", "TolError"}

\* Rank r can complete its next group of collectives.
Together(r) ==
    \A q \in DOMAIN dipf.proc : Left(q) \/ dipf.proc[q].at >= dipf.proc[r].at

\* The value of a reduction of iteration dipf.proc[r].numIts can be v.
Reduced(r, what, v) ==
    dipf.glob[dipf.proc[r].numIts + 1][what] \subseteq {v}

\* Gemv on DistMatrix, Multiply on DistSparseMatrix / DistMultiVec.
MatVec == IF dipf.kind = "DistMatrix" THEN "Gemv" ELSE "Multiply"

\* The cone check.
ConeOps == <<"NumNonPositive", "NumNonPositive">>

\* mu (and, sparse, the scaling point and its max norm), the objectives,
\* the three residuals and their norms.
ErrorOps ==
    <<"Dot">>
    \o (IF dipf.kind = "DistMatrix" THEN <<>>
        ELSE <<"PositiveNesterovTodd", "MaxNorm">>)
    \o <<"Dot", "Dot", "Dot", MatVec, "Nrm2", MatVec, MatVec, "Nrm2",
         MatVec, "Nrm2">>

\* A slip: only the printing rank computes the norms it prints.
PrintOps_RankZero(r) ==
    IF dipf.ctrl.print /\ r = 0 THEN <<"Nrm2", "Nrm2", "Nrm2", "Nrm2">> ELSE <<>>

\* if( ctrl.print ) { xNrm2 = Nrm2( x ); ... : the norms are computed by
\* every rank, ahead of the test of commRank.
PrintOps(r) ==
    IF dipf.ctrl.print THEN <<"Nrm2", "Nrm2", "Nrm2", "Nrm2">> ELSE <<>>

\* Output is called under commRank == 0 only.
Outputs(r, n) == IF dipf.ctrl.print /\ r = 0 THEN n ELSE 0

\* The ways the solve can end: it returns, or one of its calls throws.
SolveEnds ==
    IF dipf.kind = "DistMatrix" THEN {"ok", "symm_solve::Overwrite"}
    ELSE {"ok", "LDL", "SolveAfter"}

\* The KKT system and the solve, up to the call that throws if one does.
SolveOps(wMaxNorm, end) ==
    IF dipf.kind = "DistMatrix"
    THEN <<"KKT", "KKTRHS", "symm_solve::Overwrite">>
    ELSE <<"FinishKKT", "UpdateRealPartOfDiagonal">>
         \o (IF wMaxNorm = "ruiz" THEN <<"SymmetricRuizEquil">>
             ELSE IF wMaxNorm = "diag" THEN <<"SymmetricDiagonalEquil">>
             ELSE <<"Ones">>)
         \o <<"Pull", "KKTRHS", "LDL">>
         \o (IF end = "LDL" THEN <<>> ELSE <<"SolveAfter">>)

\* if( checkResiduals && ctrl.print ): the residuals of the direction.
ResidualOps ==
    IF dipf.ctrl.print
    THEN <<MatVec, "Nrm2", MatVec, MatVec, "Nrm2", MatVec, "Nrm2">>
    ELSE <<>>

StepOps ==
    <<"ExpandSolution">> \o ResidualOps
    \o <<"MaxStepInPositiveCone", "MaxStepInPositiveCone", "IPFLineSearch",
         "Axpy", "Axpy", "Axpy", "Axpy">>

\* Rank r goes through a group of collectives: it records what it called,
\* learns the reduced values in got, calls Output outs times and moves on.
Through(r, ops, got, outs, next) ==
    dipf' = [dipf EXCEPT
               !.glob[dipf.proc[r].numIts + 1] = got @@ @,
               !.proc[r] = next @@ [@ EXCEPT !.ops = @ \o ops, !.at = @ + 1,
                                             !.outs = @ + outs]]

\* for( Int numIts=0; numIts<=ctrl.maxIts; ++numIts )
DForTest(r) ==
    /\ dipf.proc[r].pc = "for"
    /\ dipf' = [dipf EXCEPT !.proc[r].pc =
                  IF dipf.proc[r].numIts <= dipf.ctrl.maxIts
                  THEN "cone" ELSE "returned"]
    /\ UNCHANGED dipfFrame

\* The cone check: the two counts are reduced over all ranks.
DCone(r) ==
    /\ dipf.proc[r].pc = "cone" /\ Together(r)
    /\ \E inCone \in BOOLEAN :
         /\ Reduced(r, "cone", inCone)
         /\ Through(r, ConeOps, [cone |-> {inCone}], 0,
                    [pc |-> IF inCone THEN "error" ELSE "LogicError"])
    /\ UNCHANGED dipfFrame

\* The relative error, the printing of the iterate and the two tests.
DConverge(r) ==
    /\ dipf.proc[r].pc = "error" /\ Together(r)
    /\ \E e \in Levels : \E w \in {"ruiz", "diag", "none"} :
         /\ Reduced(r, "relError", e)
         /\ Reduced(r, "wMaxNorm", w)
         /\ Through(r, ErrorOps \o PrintOps(r),
                    [relError |-> {e}, wMaxNorm |-> {w}], Outputs(r, 1),
                    [relError |-> e,
                     pc |-> IF e <= dipf.ctrl.targetTol THEN "returned"
                            ELSE IF /\ dipf.proc[r].numIts = dipf.ctrl.maxIts
                                    /\ e > dipf.ctrl.minTol
                                 THEN "MaxItsError" ELSE "solve"])
    /\ UNCHANGED dipfFrame

\* catch(...) of the solve and the test of a zero step, on rank r.
DGiveUp(r) ==
    IF dipf.proc[r].relError <= dipf.ctrl.minTol THEN "returned" ELSE "TolError"

\* The KKT system and the solve inside try/catch.
DSolve(r) ==
    /\ dipf.proc[r].pc = "solve" /\ Together(r)
    /\ \E end \in SolveEnds : \E w \in dipf.glob[dipf.proc[r].numIts + 1].wMaxNorm :
         /\ Reduced(r, "solve", end)
         /\ Through(r, SolveOps(w, end),
                    [solve |-> {end}], 0,
                    [pc |-> IF end = "ok" THEN "step" ELSE DGiveUp(r)])
    /\ UNCHANGED dipfFrame

\* The residuals of the direction, the step length, the step and the test
\* of a zero step.
DStep(r) ==
    /\ dipf.proc[r].pc = "step" /\ Together(r)
    /\ \E zero \in BOOLEAN :
         /\ Reduced(r, "alpha", zero)
         /\ Through(r, StepOps, [alpha |-> {zero}], Outputs(r, 3),
                    IF zero THEN [pc |-> DGiveUp(r)]
                    ELSE [pc |-> "for", numIts |-> dipf.proc[r].numIts + 1])
    /\ UNCHANGED dipfFrame

DIPFNext ==
    \E r \in DOMAIN dipf.proc :
        \/ DForTest(r)
        \/ DCone(r)
        \/ DConverge(r)
        \/ DSolve(r)
        \/ DStep(r)

SpecDIPF == DIPFInit /\ [][DIPFNext]_vars

TrrInputs ==
    [uplo : {"LOWER", "UPPER"},
     orientA : {"TRANSPOSE", "ADJOINT"},
     orientC : {"TRANSPOSE", "ADJOINT"},
     orientD : {"TRANSPOSE", "ADJOINT"},
     n : 1 .. MaxDim - 1, r : 0 .. MaxDim, bsize : 1 .. MaxNb]

TrrAlpha == Cx(2, 1)
TrrBeta == Cx(1, 0 - 1)

\* The operands' entries.
TrrA(t, i) == Cx(1 + t - i, 2 * i - t)
TrrB(t, j) == Cx(t - j, 1 + j)
TrrC(t, i) == Cx(2 * i + t, i - t)
TrrD(j, t) == Cx(1 + j, t + 2 * j)
TrrE0(x) == [ij \in (0 .. x.n - 1) \X (0 .. x.n - 1) |-> CFill(0, ij[1], ij[2])]

TrrInit ==
    /\ \E x \in TrrInputs :
         trr = [in |-> x, k |-> 0, E |-> TrrE0(x), panels |-> <<>>,
                pc |-> "for"]
    /\ in = Unused /\ main = Unused /\ dm = Unused /\ upd = Unused
    /\ pc = Unused /\ A = Unused /\ C = Unused /\ ALw = Unused
    /\ A1_MC_Star = Unused /\ A1_MR_Star = Unused /\ ipf = Unused
    /\ dipf = Unused /\ pcf = Unused /\ capi = Unused

trrFrame == <<in, kernelVars, main, dm, upd, ipf, dipf, pcf, capi>>

\* Entry (i, j) of op(M) for an orientation.
OrientedAt(orient, M, i, j) ==
    IF orient = "NORMAL" THEN M[<<i, j>>]
    ELSE IF orient = "TRANSPOSE" THEN M[<<j, i>>]
    ELSE Conj(M[<<j, i>>])

\* sum over t < w of op(X)(i, t) * op(Y)(t, j)
RECURSIVE OrientedDot(_, _, _, _, _, _, _)
OrientedDot(orientX, X, orientY, Y, i, j, w) ==
    IF w = 0 THEN CZero
    ELSE CAdd(OrientedDot(orientX, X, orientY, Y, i, j, w - 1),
              CMul(OrientedAt(orientX, X, i, w - 1),
                   OrientedAt(orientY, Y, w - 1, j)))

InTriangle(uplo, i, j) == IF uplo = "LOWER" THEN i >= j ELSE i <= j

\* LocalTrr2k: E := alpha op(A) op(B) + beta op(C) op(D) + gamma E on the
\* uplo triangle of E, w being the inner dimension.
LocalTrr2k(uplo, orientA, orientB, orientC, orientD, alpha, AM, BM, beta, CM, DM, gamma, E, w) ==
    [ij \in DOMAIN E |->
       IF InTriangle(uplo, ij[1], ij[2])
       THEN CAdd(CAdd(CMul(alpha, OrientedDot(orientA, AM, orientB, BM,
                                              ij[1], ij[2], w)),
                      CMul(beta, OrientedDot(orientC, CM, orientD, DM,
                                             ij[1], ij[2], w))),
                 CMul(gamma, E[ij]))
       ELSE E[ij]]

\* Transpose( X, XTrans, conjugate ) of a rows x cols matrix.
Transpose(X, rows, cols, conjugate) ==
    [ji \in (0 .. cols - 1) \X (0 .. rows - 1) |->
       IF conjugate THEN Conj(X[<<ji[2], ji[1]>>]) ELSE X[<<ji[2], ji[1]>>]]

\* A slip: D1 is transposed without regard to orientD.
D1Trans_Plain(D1, nb) == Transpose(D1, trr.in.n, nb, FALSE)

\* Transpose( D1_VR_STAR, D1Trans_STAR_MR, (orientD==ADJOINT) )
D1Trans(D1, nb) == Transpose(D1, trr.in.n, nb, trr.in.orientD = "ADJOINT")

\* One pass through the loop body: the panel ind1 = [k, k+nb).
Panel ==
    /\ trr.pc = "for" /\ trr.k < trr.in.r
    /\ LET x  == trr.in
           k  == trr.k
           nb == Min(x.bsize, x.r - k)
           cols == 0 .. x.n - 1
           rows == 0 .. nb - 1
           \* A1 = A( ind1, ALL ), B1, C1 and D1 = D( ALL, ind1 )
           A1p == [ti \in rows \X cols |-> TrrA(k + ti[1], ti[2])]
           B1p == [tj \in rows \X cols |-> TrrB(k + tj[1], tj[2])]
           C1p == [ti \in rows \X cols |-> TrrC(k + ti[1], ti[2])]
           D1p == [jt \in cols \X rows |-> TrrD(jt[1], k + jt[2])]
           B1Trans == Transpose(B1p, nb, x.n, FALSE)
       IN  trr' = [trr EXCEPT
                     !.E = LocalTrr2k(x.uplo, x.orientA, "TRANSPOSE",
                                      x.orientC, "NORMAL",
                                      TrrAlpha, A1p, B1Trans,
                                      TrrBeta, C1p, D1Trans(D1p, nb),
                                      Cx(1, 0), trr.E, nb),
                     !.panels = Append(@, <<k, k + nb>>),
                     !.k = k + x.bsize]
    /\ UNCHANGED trrFrame

\* k < r fails: the call returns.
TrrReturn ==
    /\ trr.pc = "for" /\ ~(trr.k < trr.in.r)
    /\ trr' = [trr EXCEPT !.pc = "returned"]
    /\ UNCHANGED trrFrame

TrrNext == Panel \/ TrrReturn

SpecTrr2k == TrrInit /\ [][TrrNext]_vars

\* sum over t < w of op(A)(i,t) B(t,j), and of op(C)(i,t) op(D)(t,j), on the
\* whole operands.
RECURSIVE TrrSumAB(_, _, _)
TrrSumAB(i, j, w) ==
    IF w = 0 THEN CZero
    ELSE CAdd(TrrSumAB(i, j, w - 1),
              CMul(IF trr.in.orientA = "ADJOINT" THEN Conj(TrrA(w - 1, i))
                   ELSE TrrA(w - 1, i),
                   TrrB(w - 1, j)))
RECURSIVE TrrSumCD(_, _, _)
TrrSumCD(i, j, w) ==
    IF w = 0 THEN CZero
    ELSE CAdd(TrrSumCD(i, j, w - 1),
              CMul(IF trr.in.orientC = "ADJOINT" THEN Conj(TrrC(w - 1, i))
                   ELSE TrrC(w - 1, i),
                   IF trr.in.orientD = "ADJOINT" THEN Conj(TrrD(j, w - 1))
                   ELSE TrrD(j, w - 1)))

\* E0 + alpha op(A) B + beta op(C) op(D), the inner index running below w.
TrrExpected(i, j, w) ==
    CAdd(TrrE0(trr.in)[<<i, j>>],
         CAdd(CMul(TrrAlpha, TrrSumAB(i, j, w)),
              CMul(TrrBeta, TrrSumCD(i, j, w))))

\* C26: Trr2kTNTT panel accumulation: the loop visits the ranges
\* [k, min(k+bsize, r)) for k = 0, bsize, 2 bsize, ... in increasing order;
\* they are disjoint and, when the call returns, cover [0, r) exactly once.
\* After the panels up to w, E holds on the uplo triangle
\* E0 + alpha op(A) B + beta op(C) op(D) with the inner index below w, so
\* the returned E is that value for w = r, whatever bsize is; E is unchanged
\* when r = 0.
C26_PanelAccumulation ==
    LET x == trr.in
        w == Min(trr.k, x.r)
    IN  /\ \A n \in 1 .. Len(trr.panels) :
             trr.panels[n] = <<(n - 1) * x.bsize, Min(n * x.bsize, x.r)>>
        /\ \A n \in 1 .. Len(trr.panels) - 1 :
             trr.panels[n][2] = trr.panels[n + 1][1]
        /\ \A t \in 0 .. w - 1 :
             Cardinality({n \in 1 .. Len(trr.panels) :
                            trr.panels[n][1] <= t /\ t < trr.panels[n][2]}) = 1
        /\ trr.pc = "returned" => w = x.r
        /\ \A ij \in DOMAIN trr.E :
             IF InTriangle(x.uplo, ij[1], ij[2])
             THEN trr.E[ij] = TrrExpected(ij[1], ij[2], w)
             ELSE trr.E[ij] = TrrE0(x)[ij]
        /\ x.r = 0 => trr.E = TrrE0(x)

\* A returned call with r = 3 and bsize = 2: a full panel and a narrower
\* last one; with D' the adjoint, the entry (1, 0) of the lower triangle
\* holds the full sum, which differs from E0 and from the sum with D
\* transposed but not conjugated.
C26_Witness ==
    /\ trr.pc = "returned"
    /\ trr.in.r = 3 /\ trr.in.bsize = 2 /\ trr.in.n = 2
    /\ trr.in.uplo = "LOWER" /\ trr.in.orientD = "ADJOINT"
    /\ trr.in.orientA = "ADJOINT"
    /\ trr.panels = << <<0, 2>>, <<2, 3>> >>
    /\ trr.E[<<1, 0>>] = TrrExpected(1, 0, 3)
    /\ trr.E[<<1, 0>>] # TrrE0(trr.in)[<<1, 0>>]
    /\ trr.E[<<0, 1>>] = TrrE0(trr.in)[<<0, 1>>]

(***************************************************************************)
(* adjoint::PartialColFilter: B[U,V] := filter of the adjoint of           *)
(* A[V,Partial(U)], on one process.  A is height x width and B is width x  *)
(* height.  The rows of B are dealt out over `stride' processes and the    *)
(* columns of A over the `partial' of them that share a remainder; the     *)
(* process keeps, of the columns of A it holds, those that become rows of  *)
(* B it owns.  The V distribution plays no part and is left out.  The      *)
(* BlockDistMatrix overload deals indices out in blocks of blockHeight.    *)
(***************************************************************************)
PcfLayouts ==
    {[stride |-> s[1] * s[2], partial |-> s[1]] : s \in GridShapes}
      \cup {[stride |-> s[1], partial |-> s[1]] : s \in GridShapes}

PcfInputs ==
    { x \in [overload : {"DistMatrix", "BlockDistMatrix"},
             conjugate : BOOLEAN,
             height : 1 .. MaxDim, width : 1 .. MaxDim,
             layout : PcfLayouts, rank : 0 .. 3,
             blockHeight : 1 .. 2] :
        /\ x.rank < x.layout.stride
        /\ x.overload = "DistMatrix" => x.blockHeight = 1 }

\* The entries of A.
PcfA(i, j) == Cx(1 + i - j, 2 * j - i + 1)

\* Owner of index i among n processes, in blocks of bh.
PcfOwner(i, n, bh) == (i \div bh) % n

\* The columns of A the process holds and the rows of B it owns.
PcfHeld(x) ==
    {j \in 0 .. x.width - 1 :
       PcfOwner(j, x.layout.partial, x.blockHeight) = x.rank % x.layout.partial}
PcfOwned(x) ==
    {i \in 0 .. x.width - 1 :
       PcfOwner(i, x.layout.stride, x.blockHeight) = x.rank}

\* The process's part of A.
PcfLocalA(x) == [ij \in (0 .. x.height - 1) \X PcfHeld(x) |-> PcfA(ij[1], ij[2])]

\* transpose::PartialColFilter( A, B, conjugate ): the process's part of B.
TransposePartialColFilter(x, AL, conjugate) ==
    [ij \in PcfOwned(x) \X (0 .. x.height - 1) |->
       IF conjugate THEN Conj(AL[<<ij[2], ij[1]>>]) ELSE AL[<<ij[2], ij[1]>>]]

\* A slip the signature invites: the argument is passed on.
AdjointPartialColFilter_Forwarding(x, AL) ==
    TransposePartialColFilter(x, AL, x.conjugate)

\* adjoint::PartialColFilter( A, B, conjugate ), both overloads:
\* transpose::PartialColFilter( A, B, true ).
AdjointPartialColFilter(x, AL) == TransposePartialColFilter(x, AL, TRUE)

PcfInit ==
    /\ \E x \in PcfInputs : pcf = [in |-> x, B |-> <<>>, pc |-> "call"]
    /\ in = Unused /\ main = Unused /\ dm = Unused /\ upd = Unused
    /\ pc = Unused /\ A = Unused /\ C = Unused /\ ALw = Unused
    /\ A1_MC_Star = Unused /\ A1_MR_Star = Unused /\ ipf = Unused
    /\ dipf = Unused /\ trr = Unused /\ capi = Unused

pcfFrame == <<in, kernelVars, main, dm, upd, ipf, dipf, trr, capi>>

PcfCall ==
    /\ pcf.pc = "call"
    /\ pcf' = [pcf EXCEPT
                 !.B = AdjointPartialColFilter(pcf.in, PcfLocalA(pcf.in)),
                 !.pc = "returned"]
    /\ UNCHANGED pcfFrame

PcfNext == PcfCall

SpecPCF == PcfInit /\ [][PcfNext]_vars

\* What a call with the inputs x leaves in B.
PcfResult(x) == AdjointPartialColFilter(x, PcfLocalA(x))

\* C27: adjoint::PartialColFilter ignores its 'conjugate' argument: for
\* every input and both overloads, the B a call leaves is the B the call
\* with the other value of conjugate leaves, and it is the filter of the
\* conjugate transpose of A: B(i, j) = conj(A(j, i)) at the entries the
\* process owns.
C27_ConjugateIgnored ==
    pcf.pc = "returned" =>
        /\ pcf.B = PcfResult([pcf.in EXCEPT !.conjugate = ~pcf.in.conjugate])
        /\ DOMAIN pcf.B = PcfOwned(pcf.in) \X (0 .. pcf.in.height - 1)
        /\ \A ij \in DOMAIN pcf.B : pcf.B[ij] = Conj(PcfA(ij[2], ij[1]))

\* A returned call with conjugate = false on rank 2 of four (partial 2):
\* the process holds columns 0 and 2 of A and owns row 2 of B, whose entry
\* from A(0, 2) is conjugated although the caller asked for no
\* conjugation.
C27_Witness ==
    /\ pcf.pc = "returned" /\ ~pcf.in.conjugate
    /\ pcf.in.layout = [stride |-> 4, partial |-> 2] /\ pcf.in.rank = 2
    /\ pcf.in.width = 3 /\ pcf.in.height = 2
    /\ pcf.in.overload = "DistMatrix"
    /\ PcfHeld(pcf.in) = {0, 2} /\ PcfOwned(pcf.in) = {2}
    /\ pcf.B[<<2, 0>>] = Conj(PcfA(0, 2))
    /\ pcf.B[<<2, 0>>] # PcfA(0, 2)

(***************************************************************************)
(* The C interface of the matrix gallery (matrices-C.cpp).  A wrapper      *)
(* El<name>_<SIG> (sequential A) or El<name>Dist_<SIG> (distributed A)     *)
(* copies its buffer arguments into vectors inside a try block, calls the  *)
(* generator, and returns an ElError.  capi.A is what the matrix holds:    *)
(* which generator built it from which arguments, the same record for a    *)
(* sequential and a distributed matrix with the same global entries.  The  *)
(* input fault says where an exception is thrown if that point is reached. *)
(***************************************************************************)
Wrapper(name, dist, bufs, scalars, gen) ==
    [name |-> name, dist |-> dist, bufs |-> bufs, scalars |-> scalars,
     gen |-> gen]

\* Every wrapper of the file: its buffer arguments (for Egorov, the phase
\* function wrapped into a std::function), the scalars it passes on, and
\* the generator its try block calls.
Wrappers ==
    { Wrapper("Circulant", FALSE, <<"a">>, <<>>, "Circulant"),
      Wrapper("Circulant", TRUE, <<"a">>, <<>>, "Circulant"),
      Wrapper("Diagonal", FALSE, <<"d">>, <<>>, "Diagonal"),
      Wrapper("Diagonal", TRUE, <<"d">>, <<>>, "Diagonal"),
      Wrapper("Forsythe", FALSE, <<>>, <<"n", "alpha", "lambda">>, "Forsythe"),
      Wrapper("Forsythe", TRUE, <<>>, <<"n", "alpha", "lambda">>, "Forsythe"),
      Wrapper("Ones", FALSE, <<>>, <<"m", "n">>, "Ones"),
      Wrapper("Ones", TRUE, <<>>, <<"m", "n">>, "Ones"),
      Wrapper("Uniform", FALSE, <<>>, <<"m", "n", "center", "radius">>, "Uniform"),
      Wrapper("Uniform", TRUE, <<>>, <<"m", "n", "center", "radius">>, "Uniform"),
      Wrapper("Cauchy", FALSE, <<"x", "y">>, <<>>, "Cauchy"),
      Wrapper("Cauchy", TRUE, <<"x", "y">>, <<>>, "Cauchy"),
      Wrapper("CauchyLike", FALSE, <<"r", "s", "x", "y">>, <<>>, "none"),
      Wrapper("CauchyLike", TRUE, <<"r", "s", "x", "y">>, <<>>, "CauchyLike"),
      Wrapper("Demmel", FALSE, <<>>, <<"n">>, "Demmel"),
      Wrapper("Demmel", TRUE, <<>>, <<"n">>, "Demmel"),
      Wrapper("Ehrenfest", FALSE, <<>>, <<"n">>, "Ehrenfest"),
      Wrapper("Ehrenfest", TRUE, <<>>, <<"n">>, "Ehrenfest"),
      Wrapper("EhrenfestStationary", FALSE, <<>>, <<"n">>, "EhrenfestStationary"),
      Wrapper("EhrenfestStationary", TRUE, <<>>, <<"n">>, "EhrenfestStationary"),
      Wrapper("EhrenfestDecay", FALSE, <<>>, <<"n">>, "EhrenfestDecay"),
      Wrapper("ExtendedKahan", FALSE, <<>>, <<"k", "phi", "mu">>, "ExtendedKahan"),
      Wrapper("Fiedler", FALSE, <<"c">>, <<>>, "Fiedler"),
      Wrapper("Fiedler", TRUE, <<"c">>, <<>>, "Fiedler"),
      Wrapper("BullsHead", FALSE, <<>>, <<"n">>, "BullsHead"),
      Wrapper("BullsHead", TRUE, <<>>, <<"n">>, "BullsHead"),
      Wrapper("Egorov", FALSE, <<"phase">>, <<"n">>, "Egorov"),
      Wrapper("Egorov", TRUE, <<"phase">>, <<"n">>, "Egorov") }

\* A slip-free ElCauchyLike_: the generator is called as in the Dist wrapper.
Generator_Called(w) == IF w.gen = "none" THEN w.name ELSE w.gen

\* The generator the wrapper's try block calls ("none": no call).
Generator(w) == w.gen

\* The caller's arrays (longer than the size passed) and scalars.
BufData(b) ==
    [i \in 1 .. MaxDim + 1 |->
       IF b = "r" THEN i + 1
       ELSE IF b = "s" THEN 2 * i + 1
       ELSE IF b = "x" THEN 10 + 3 * i
       ELSE IF b = "y" THEN i
       ELSE 5 * i - 2]
ScalarData(s, size) == IF s \in {"n", "m", "k"} THEN size ELSE 2

Exceptions == {"bad_alloc", "logic_error", "runtime_error"}

\* Where an exception is thrown: nowhere, in the copy of buffer number at,
\* or in the generator.
Faults(w) ==
    {[in |-> "none", at |-> 0, what |-> "none"]}
      \cup {[in |-> "copy", at |-> n, what |-> "bad_alloc"] :
              n \in 1 .. Len(w.bufs)}
      \cup {[in |-> "generator", at |-> 0, what |-> e] : e \in Exceptions}

CapiInputs ==
    UNION { {[w |-> w, size |-> size, fault |-> f] :
               size \in 1 .. MaxDim, f \in Faults(w)} : w \in Wrappers }

\* What the caller's matrix holds before the call.
CallerMatrix == [by |-> "caller", with |-> <<>>]

CapiInit ==
    /\ \E x \in CapiInputs :
         capi = [in |-> x, vecs |-> <<>>, A |-> CallerMatrix, pc |-> "try",
                 exc |-> "none", ran |-> FALSE, rc |-> "none"]
    /\ in = Unused /\ main = Unused /\ dm = Unused /\ upd = Unused
    /\ pc = Unused /\ A = Unused /\ C = Unused /\ ALw = Unused
    /\ A1_MC_Star = Unused /\ A1_MR_Star = Unused /\ ipf = Unused
    /\ dipf = Unused /\ trr = Unused /\ pcf = Unused

capiFrame == <<in, kernelVars, main, dm, upd, ipf, dipf, trr, pcf>>

\* std::vector<T> v( Reinterpret(buf), Reinterpret(buf)+size ): a copy of
\* the first size elements.
CopyOf(b, size) == SubSeq(BufData(b), 1, size)

\* The matrix a generator builds from its arguments.
Built(gen, args) == [by |-> gen, with |-> args]

\* The next buffer is copied, or the copy throws.
CopyBuffer ==
    /\ capi.pc = "try" /\ Len(capi.vecs) < Len(capi.in.w.bufs)
    /\ LET n == Len(capi.vecs) + 1
       IN  capi' = IF capi.in.fault.in = "copy" /\ capi.in.fault.at = n
                   THEN [capi EXCEPT !.exc = capi.in.fault.what,
                                     !.pc = "catch"]
                   ELSE [capi EXCEPT !.vecs =
                           Append(@, CopyOf(capi.in.w.bufs[n], capi.in.size))]
    /\ UNCHANGED capiFrame

\* The rest of the try block: the call of the generator, if there is one,
\* with the copied vectors and the scalars.
CallGenerator ==
    /\ capi.pc = "try" /\ Len(capi.vecs) = Len(capi.in.w.bufs)
    /\ LET w == capi.in.w
           args == capi.vecs
                   \o [n \in 1 .. Len(w.scalars) |->
                         ScalarData(w.scalars[n], capi.in.size)]
       IN  capi' = IF Generator(w) = "none"
                   THEN [capi EXCEPT !.pc = "leave"]
                   ELSE IF capi.in.fault.in = "generator"
                   THEN [capi EXCEPT !.exc = capi.in.fault.what,
                                     !.ran = TRUE, !.pc = "catch"]
                   ELSE [capi EXCEPT !.A = Built(Generator(w), args),
                                     !.ran = TRUE, !.pc = "leave"]
    /\ UNCHANGED capiFrame

\* A slip: only logic errors are caught.
Caught_LogicOnly(e) == e = "logic_error"

\* The handlers of EL_CATCH take every exception.
Caught(e) == TRUE

\* EL_CATCH: the exception becomes an error code.
ElCatch ==
    /\ capi.pc = "catch"
    /\ capi' = IF Caught(capi.exc)
               THEN [capi EXCEPT !.rc = "EL_ERROR", !.pc = "returned"]
               ELSE [capi EXCEPT !.pc = "escaped"]
    /\ UNCHANGED capiFrame

\* return EL_SUCCESS;
ReturnSuccess ==
    /\ capi.pc = "leave"
    /\ capi' = [capi EXCEPT !.rc = "EL_SUCCESS", !.pc = "returned"]
    /\ UNCHANGED capiFrame

CapiNext == CopyBuffer \/ CallGenerator \/ ElCatch \/ ReturnSuccess

SpecCAPI == CapiInit /\ [][CapiNext]_vars

\* The arguments the caller passed, as the generator should see them.
PassedArgs(x) ==
    [n \in 1 .. Len(x.w.bufs) |-> SubSeq(BufData(x.w.bufs[n]), 1, x.size)]
    \o [n \in 1 .. Len(x.w.scalars) |-> ScalarData(x.w.scalars[n], x.size)]

\* Entry (i, j) of the Cauchy-like matrix of r, s, x, y:
\* r(i) s(j) / (x(i) - y(j)), as a fraction.
CauchyLikeEntry(M, i, j) ==
    Rat(M.with[1][i] * M.with[2][j], M.with[3][i] - M.with[4][j])

Succeeded == capi.pc = "returned" /\ capi.rc = "EL_SUCCESS"

\* C28 as stated: after a successful call of any wrapper, sequential or
\* distributed, A holds the matrix its generator builds from the arguments
\* passed; for ElCauchyLike_ as for ElCauchyLikeDist_ that is the
\* Cauchy-like matrix of r, s, x, y.
C28_WrappersAgree ==
    Succeeded =>
        /\ capi.A = Built(capi.in.w.name, PassedArgs(capi.in))
        /\ capi.in.w.name = "CauchyLike" =>
             \A i \in 1 .. capi.in.size : \A j \in 1 .. capi.in.size :
                 CauchyLikeEntry(capi.A, i, j) =
                   Rat(BufData("r")[i] * BufData("s")[j],
                       BufData("x")[i] - BufData("y")[j])

\* C28: what the code does: every wrapper but the sequential ElCauchyLike_
\* leaves in A, after a successful call, the matrix its generator builds
\* from the arguments passed, the sequential and the Dist wrapper of a pair
\* alike; ElCauchyLike_ copies its four buffers, calls no generator and
\* returns EL_SUCCESS with A as the caller left it.
C28_AgreeExceptCauchyLike ==
    Succeeded =>
        IF capi.in.w.name = "CauchyLike" /\ ~capi.in.w.dist
        THEN capi.A = CallerMatrix /\ ~capi.ran /\ Len(capi.vecs) = 4
        ELSE /\ capi.A = Built(capi.in.w.name, PassedArgs(capi.in))
             /\ capi.ran
             /\ capi.in.w.name = "CauchyLike" =>
                  \A i \in 1 .. capi.in.size : \A j \in 1 .. capi.in.size :
                      CauchyLikeEntry(capi.A, i, j) =
                        Rat(BufData("r")[i] * BufData("s")[j],
                            BufData("x")[i] - BufData("y")[j])

\* ElCauchyLike_ has returned EL_SUCCESS for buffers of size 2: the four
\* vectors were copied and A is what the caller passed in.
C28_Witness ==
    /\ Succeeded
    /\ capi.in.w.name = "CauchyLike" /\ ~capi.in.w.dist
    /\ capi.in.size = 2 /\ capi.in.fault.in = "none"
    /\ capi.vecs = << <<2, 3>>, <<3, 5>>, <<13, 16>>, <<1, 2>> >>
    /\ capi.A = CallerMatrix

\* Every buffer was copied and the generator ran to its end.
Completed ==
    /\ Len(capi.vecs) = Len(capi.in.w.bufs)
    /\ capi.ran /\ capi.exc = "none"

====
